---------------------------- MODULE Spec2Model ----------------------------
(***************************************************************************)
(* Model of the acoustic field synthesis engine of acoustic-map-generator: *)
(* AcousticCalculator.compute and the helpers it calls                     *)
(* (generateSegmentBandEnergy, pointInPolygon, ISOModel, FacadeUtils,      *)
(* GaussianSmoother).                                                      *)
(*                                                                         *)
(* Number representation.  The program computes in IEEE doubles; the model *)
(* computes in fixed point:                                                *)
(*   - lengths and coordinates are integers in centimetres (U per metre);  *)
(*   - levels are integers in centi-decibels (DB per decibel);             *)
(*   - weights in [0,1] are integers in thousandths (W for 1.0);           *)
(*   - a linear energy e > 0 is held as its level 10*log10(e) in           *)
(*     centi-decibels, the energy 0 as ZeroE and an overflowed energy as   *)
(*     PosInf, so that Math.pow(10, x/10) and 10*Math.log10(e) keep their  *)
(*     range limits and energies are added by LinAdd;                      *)
(*   - NaN, +Infinity, -Infinity and null are the values NaN, PosInf,      *)
(*     NegInf and Null, outside the range of every finite level.           *)
(***************************************************************************)
EXTENDS Integers, Sequences, FiniteSets, TLC

U == 100
DB == 100
W == 1000

NaN == 1999999999
PosInf == 1999999998
NegInf == -1999999998
Null == 1999999997
ZeroE == -1999999997

IsFinite(v) == v \notin {NaN, PosInf, NegInf, Null}

Abs(a) == IF a < 0 THEN -a ELSE a
Max2(a, b) == IF a >= b THEN a ELSE b
Min2(a, b) == IF a <= b THEN a ELSE b

\* Math.floor(a / b) for b > 0 (TLA+ \div already rounds toward -infinity)
FloorDiv(a, b) == a \div b
\* a / b rounded to the nearest integer, b > 0
RoundDiv(a, b) == (2 * a + b) \div (2 * b)
\* Math.ceil(a / b) for b > 0
CeilDiv(a, b) == -((-a) \div b)

RECURSIVE SqrtSearch(_, _, _)
SqrtSearch(n, lo, hi) ==
    IF lo >= hi THEN lo
    ELSE LET mid == (lo + hi + 1) \div 2
         IN IF mid * mid <= n THEN SqrtSearch(n, mid, hi)
            ELSE SqrtSearch(n, lo, mid - 1)

\* integer square root, n < 2^30
Isqrt(n) == SqrtSearch(n, 0, 32767)

\* Math.hypot(a, b) on centimetre offsets, rounded down to the centimetre
Hypot(a, b) == Isqrt(a * a + b * b)

RECURSIVE Log10Bits(_, _, _)
\* binary digits of log10(m / 1000) for 1000 <= m < 10000, by repeated squaring
Log10Bits(m, bit, left) ==
    IF left = 0 THEN 0
    ELSE LET sq == (m * m) \div 1000
         IN IF sq >= 10000
            THEN bit + Log10Bits(sq \div 10, bit \div 2, left - 1)
            ELSE Log10Bits(sq, bit \div 2, left - 1)

RECURSIVE Log10Norm(_, _)
\* 1024 * log10(n) for an integer n >= 1; d counts the decades removed so far
Log10Norm(n, d) ==
    IF n >= 10000 THEN Log10Norm(n \div 10, d + 1)
    ELSE IF n < 1000 THEN Log10Norm(n * 10, d - 1)
    ELSE (d + 3) * 1024 + Log10Bits(n, 512, 10)

\* 1000 * Math.log10(n) for an integer n >= 1
Log10Milli(n) == RoundDiv(Log10Norm(n, 0) * 1000, 1024)

\* Math.exp(-u / 1000) in thousandths, u >= 0 in thousandths:
\* (1 - v + v^2/2 - v^3/6)^16 with v = u/16, held in ten-thousandths
ExpNeg(u) ==
    IF u >= 9000 THEN 0
    ELSE LET v == (10 * u) \div 16
             t == 10000 - v + (v * v) \div 20000 - (((v * v) \div 1000) * v) \div 600000
             p1 == (t * t) \div 10000
             p2 == (p1 * p1) \div 10000
             p3 == (p2 * p2) \div 10000
             p4 == (p3 * p3) \div 10000
         IN RoundDiv(p4, 10)

\* 10^(-d/10) in thousandths for a level difference d >= 0 in centi-decibels
PowNeg(d) == ExpNeg(RoundDiv(d * 23, 10))

\* a + b on linear energies (held as levels): 10*log10(10^(a/10) + 10^(b/10))
LinAdd(a, b) ==
    IF a = PosInf \/ b = PosInf THEN PosInf
    ELSE IF a = ZeroE THEN b
    ELSE IF b = ZeroE THEN a
    ELSE LET hi == Max2(a, b)
             lo == Min2(a, b)
         IN hi + (Log10Milli(1000 + PowNeg(hi - lo)) - 3000)

\* largest and smallest level whose energy is a finite, non-zero double
MaxExpDb == 30825
MinExpDb == -32300

\* Math.pow(10, db / 10): the linear energy of a finite level
PowTen(db) ==
    IF db > MaxExpDb THEN PosInf
    ELSE IF db < MinExpDb THEN ZeroE
    ELSE db

\* 10 * Math.log10(Math.exp(-u / 1000)) in centi-decibels, u >= 0 in thousandths
ExpDb(u) == -RoundDiv(u * 4343, 10000)

(***************************************************************************)
(* Geometry                                                                *)
(***************************************************************************)

\* pointInPolygon: ray casting; the division by (yj - yi) is cross-multiplied
pointInPolygon(x, y, poly) ==
    IF Len(poly) < 3 THEN FALSE
    ELSE LET n == Len(poly)
             Crosses(i) ==
                 LET j == IF i = 1 THEN n ELSE i - 1
                     xi == poly[i][1]
                     yi == poly[i][2]
                     xj == poly[j][1]
                     yj == poly[j][2]
                 IN /\ (yi > y) # (yj > y)
                    /\ IF yj > yi
                       THEN (x - xi) * (yj - yi) < (xj - xi) * (y - yi)
                       ELSE (x - xi) * (yj - yi) > (xj - xi) * (y - yi)
         IN Cardinality({i \in 1..n : Crosses(i)}) % 2 = 1

(***************************************************************************)
(* Configurations handed to compute()                                      *)
(***************************************************************************)

\* number of compute() calls made on one configuration object
MaxCalls == 2

NoPoly == << >>
TwoPoly == << <<-300, 0>>, <<300, 0>> >>
RectPoly == << <<-300, -300>>, <<300, -300>>, <<300, 300>>, <<-300, 300>> >>
LPoly == << <<-300, -300>>, <<300, -300>>, <<300, 300>>, <<0, 300>>, <<0, 0>>, <<-300, 0>> >>
Polys == {NoPoly, TwoPoly, RectPoly, LPoly}

\* buildHeatmap: segment-i runs from perimeter point i to the next one (names
\* are the indices i of `segment-i`, counted from 0)
MainOf(finalLoop) ==
    [k \in 1..Len(finalLoop) |->
        [name |-> k - 1,
         p1 |-> finalLoop[k],
         p2 |-> finalLoop[(k % Len(finalLoop)) + 1]]]

\* levels a caller puts in the Lw map (centi-decibels); NaN is a supplied
\* entry that is not a finite number
LwValues == {NaN, -500, 0, 1000, 5000, 7000, 8000}
\* segment names that can carry an entry
SegNames == 0..5

\* the Lw maps: no entry at all, an entry for segment-0 only, or an entry for
\* segment-0 and the same level `rest` for every other name
LwMaps ==
    {[k \in {} |-> 0]}
    \cup {[k \in {0} |-> v] : v \in LwValues}
    \cup {[k \in SegNames |-> IF k = 0 THEN v ELSE rest] :
              v \in LwValues, rest \in {0, 3000}}

\* params: cellSize 0 stands for an absent cellSize
ParamSets ==
    {[cellSize |-> 200, preSmoothSize |-> 0, overlaySmoothSize |-> 3,
      sourceSpacing |-> 300, redSampleSpacing |-> 300,
      debugEmit |-> TRUE, Lp_in_map |-> [k \in {} |-> 0]],
     [cellSize |-> 0, preSmoothSize |-> 3, overlaySmoothSize |-> 0,
      sourceSpacing |-> 300, redSampleSpacing |-> 300,
      debugEmit |-> FALSE, Lp_in_map |-> [k \in {1} |-> 4000]]}

\* a perimeter with a re-entrant corner at (1, 1): an L whose centre of points
\* lies off both notch facades
NotchPoly == << <<-300, -300>>, <<300, -300>>, <<300, 300>>, <<100, 300>>,
               <<100, 100>>, <<-300, 100>> >>

\* a perimeter with a repeated point: segment-1 runs from (3, -3) to (3, -3)
DupPoly == << <<-300, -300>>, <<300, -300>>, <<300, -300>>, <<300, 300>>, <<-300, 300>> >>

\* params of a configuration that has none: every field takes its default
NoParams ==
    [cellSize |-> 0, preSmoothSize |-> 0, overlaySmoothSize |-> 9,
     sourceSpacing |-> 0, redSampleSpacing |-> 12,
     debugEmit |-> FALSE, Lp_in_map |-> [k \in {} |-> 0]]

\* compute({}): areaSize and resolution are undefined, Number(undefined) is NaN
EmptyCfg ==
    [areaSize |-> NaN, resolution |-> NaN, poly |-> NoPoly, main |-> MainOf(NoPoly),
     Lw |-> [k \in {} |-> 0], params |-> NoParams]

\* a cell size above half the area size: the minimum of 3 samples applies
WideCellCfg ==
    [areaSize |-> 800, resolution |-> 5, poly |-> RectPoly, main |-> MainOf(RectPoly),
     Lw |-> [k \in {0} |-> 8000],
     params |-> [cellSize |-> 500, preSmoothSize |-> 0, overlaySmoothSize |-> 3,
                 sourceSpacing |-> 300, redSampleSpacing |-> 300,
                 debugEmit |-> FALSE, Lp_in_map |-> [k \in {} |-> 0]]]

\* configurations whose perimeter holds the zero-length segment-1
DupCfgs ==
    {[areaSize |-> 800, resolution |-> 5, poly |-> DupPoly, main |-> MainOf(DupPoly),
      Lw |-> lw, params |-> ps] :
        lw \in {[k \in SegNames |-> 8000], [k \in {1} |-> 8000]}, ps \in ParamSets}

\* the L with the off-centre notch, every facade at 80 dB
NotchCfg ==
    [areaSize |-> 800, resolution |-> 5, poly |-> NotchPoly, main |-> MainOf(NotchPoly),
     Lw |-> [k \in SegNames |-> 8000],
     params |-> [cellSize |-> 200, preSmoothSize |-> 0, overlaySmoothSize |-> 3,
                 sourceSpacing |-> 300, redSampleSpacing |-> 300,
                 debugEmit |-> FALSE, Lp_in_map |-> [k \in {} |-> 0]]]

Configs ==
    {[areaSize |-> 800, resolution |-> 5, poly |-> py, main |-> MainOf(py),
      Lw |-> lw, params |-> ps] : py \in Polys, lw \in LwMaps, ps \in ParamSets}
    \cup {EmptyCfg, WideCellCfg, NotchCfg} \cup DupCfgs

(***************************************************************************)
(* State                                                                   *)
(***************************************************************************)
VARIABLES
    cfg,          \* the configuration object passed to compute()
    emitPoints,   \* length of cfg.params.colorOverlay.__emitPoints
    pc,           \* position inside compute(): "idle" between calls
    calls,        \* number of calls completed on cfg
    xs,           \* grid axis (xs and ys hold the same samples)
    output,       \* base field Lp_out per cell
    smoothed,     \* base field after the pre and final smoothing
    bandsOf,      \* per segment name: the bands whose energy was accumulated
    energyGrid,   \* accumulated band energy per cell
    overlay,      \* combined field, then combined with the hot-spot pass
    hot,          \* per cell and segment: the hot-spot contribution
    finalSmooth,  \* blended, capped field
    result,       \* value returned by the latest call
    firstResult,  \* value returned by the first call on cfg
    lwMap,        \* the Lw map object handed to WaveEmitter.generateSources
    sources,      \* the list returned by WaveEmitter.generateSources
    loopSources,  \* the list returned by the WaveEmitter of ControlsPanel.tsx
    facadeElements, \* the facade elements handed to computeFacadeRePrime
    rePrimeISO,   \* what ISOModel.computeFacadeRePrime returned for them
    rePrimeGF,    \* what computeFacadeRePrime of GradientFactory.ts returned
    zmin,         \* buildThresholdColorscale: the data range ...
    zmax,
    thresholds,   \* ... and the thresholds object (present = FALSE: not given)
    builder,      \* which of the three buildThresholdColorscale was called
    colorscale,   \* the list of stops [p, color] it returned
    spacingArg,   \* generateSources step by step: the sampleSpacing argument
    samplerPc,    \* ... "idle", "loop" (in the segment loop) or "returned"
    segK,         \* ... index k of the segment being sampled
    sIdx,         \* ... sIdx of the sample loop
    pushed,       \* ... the samples pushed so far: segment and sIdx of each
    gridSources,  \* computeGridLpFromSources: the sources argument ...
    gridOptions,  \* ... the options argument (given = FALSE: not passed)
    gridOut,      \* ... and how the call ended: thrown, or the matrix returned
    yellowBlur,   \* generateRedHeatmapFromFacade: options.applyYellowBlur (cells)
    redPc,        \* ... position in it: "idle", "mask", "rows", "cols", "combine", "returned"
    redDb,        \* ... redDb, then redLinear
    yellowDb,     \* ... yellowDb, then yellowLinear and its blur
    redOut,       \* ... and the matrix it returned (<< >> before the return)
    building,     \* Home: the building state (shapeType and LwBySegment)
    shapeTypeOfConfig, \* ... config.shapeType ("undefined" when the field is absent)
    committed,    \* ... the building and config.shapeType the last render saw
    buildingChanged,   \* ... setBuilding has installed a new object since that render
    loopPending,  \* ... the effect on [finalLoop] has to run
    syncPending,  \* ... the effect of useSyncSegments has to run
    syncMounted,  \* ... whether the component calls useSyncSegments
    lLoop,        \* ... number of points of finalLoop for the L mesh of the build
    installed,    \* ... what the last changeBuildingType installed, until the next user action
    reinits,      \* ... re-initialisations by the sync effect since the last user action
    runs,         \* usePlotlyTexture: one record per run of its effect
    texture,      \* ... the texture state (0 = null, k = the texture of run k)
    hookMounted,  \* ... the component is mounted
    hiddenDivRef, \* ... hiddenDivRef.current (0 = null, k = the container run k created)
    containers,   \* ... the containers attached to document.body
    created,      \* ... the textures the loader has created
    disposed,     \* ... the textures dispose() was called on
    published     \* ... the setTexture calls in order: the run and the latest run then

\* the variables compute() leaves alone
\* the variables of the functions called on their own
fnVars == <<facadeElements, rePrimeISO, rePrimeGF, zmin, zmax, thresholds, builder, colorscale>>

\* the variables of generateSources run step by step
samplerVars == <<spacingArg, samplerPc, segK, sIdx, pushed>>

\* the variables of computeGridLpFromSources
gridVars == <<gridSources, gridOptions, gridOut>>

\* the variables of generateRedHeatmapFromFacade
redVars == <<yellowBlur, redPc, redDb, yellowDb, redOut>>

\* the variables of the Home component and of useSyncSegments
uiVars == <<building, shapeTypeOfConfig, committed, buildingChanged, loopPending,
            syncPending, syncMounted, lLoop, installed, reinits>>

\* the variables of usePlotlyTexture
texVars == <<runs, texture, hookMounted, hiddenDivRef, containers, created, disposed, published>>

\* the variables of the React components
reactVars == <<uiVars, texVars>>

\* the variables of the host code around compute()
hostVars == <<samplerVars, gridVars, redVars, reactVars>>

\* the variables of compute()
computeVars == <<cfg, emitPoints, pc, calls, xs, output, smoothed, bandsOf, energyGrid,
                 overlay, hot, finalSmooth, result, firstResult>>

auxVars == <<lwMap, sources, loopSources, fnVars, hostVars>>

vars == <<cfg, emitPoints, pc, calls, xs, output, smoothed, bandsOf, energyGrid,
          overlay, hot, finalSmooth, result, firstResult, auxVars>>

\* a matrix not computed yet
NoMatrix == << >>

\* a res x res matrix whose cell (row j, column i) is F(j, i)
Matrix(res, F(_, _)) == [j \in 1..res |-> [i \in 1..res |-> F(j, i)]]

\* a - b on doubles
Sub(a, b) ==
    IF a = NaN \/ b = NaN THEN NaN
    ELSE IF a = PosInf THEN (IF b = PosInf THEN NaN ELSE PosInf)
    ELSE IF a = NegInf THEN (IF b = NegInf THEN NaN ELSE NegInf)
    ELSE IF b = PosInf THEN NegInf
    ELSE IF b = NegInf THEN PosInf
    ELSE a - b

(***************************************************************************)
(* ISOModel and FacadeUtils                                                *)
(***************************************************************************)

\* buildFacadeElementsForSegment: one element, area in cm^2, R = Rmap entry or 30 dB
buildFacadeElementsForSegment(seg, buildingHeight) ==
    LET segLen == Hypot(seg.p2[1] - seg.p1[1], seg.p2[2] - seg.p1[2])
        height == Max2(10, IF buildingHeight = 0 THEN 300 ELSE buildingHeight)
        area == Max2(1, segLen * height)
    IN << [area |-> area, R |-> 30 * DB] >>

RECURSIVE WeightedSum(_, _)
\* sum_j Sj * 10^(-Rj/10) over elements k.., as an energy (level of m^2)
WeightedSum(elements, k) ==
    IF k > Len(elements) THEN ZeroE
    ELSE LET Sj == Max2(0, elements[k].area)
             Rj == IF IsFinite(elements[k].R) THEN elements[k].R ELSE 30 * DB
             term == IF Sj = 0 THEN ZeroE ELSE Log10Milli(Sj) - 4000 - Rj
         IN LinAdd(term, WeightedSum(elements, k + 1))

RECURSIVE AreaSum(_, _)
AreaSum(elements, k) ==
    IF k > Len(elements) THEN 0
    ELSE Max2(0, elements[k].area) + AreaSum(elements, k + 1)

\* ISOModel.computeFacadeRePrime: -10*log10(max(1e-12, sum / Sf))
computeFacadeRePrime(elements) ==
    LET Sf == Max2(1, AreaSum(elements, 1))
        sum == WeightedSum(elements, 1)
        ratio == IF sum = ZeroE THEN ZeroE ELSE sum - (Log10Milli(Sf) - 4000)
    IN IF ratio = ZeroE THEN 120 * DB ELSE -Max2(-120 * DB, ratio)

\* mutant: the geometric attenuation does not depend on the distance
aGeoNoDistance(distanceM) == 8 * DB

\* ISOModel.aGeo: 8 + 20*log10(max(0.01, r)), r in centimetres
aGeo(distanceM) == 8 * DB + 2 * Log10Milli(Max2(1, distanceM)) - 4000

\* ISOModel.computeLwRoomFromLpIn: Lp_in + 10*log10(max(1e-6, Aeq)), Aeq in cm^2
computeLwRoomFromLpIn(Lp_in, Aeq) == Lp_in + Log10Milli(Max2(1, Aeq)) - 4000

\* ISOModel.computeLpOutAtPoint with atmospheric = 0
computeLpOutAtPoint(Lw_room, RePrime, Df_room, Df_out, distanceM) ==
    Sub(Sub(Sub(Sub(Lw_room, RePrime), Df_room), Df_out), aGeo(distanceM))

(***************************************************************************)
(* AcousticCalculator.compute, stage by stage                              *)
(***************************************************************************)

\* grid construction: cellSize when given, else resolution; at least 3 samples
GridAxis(c) ==
    LET area == c.areaSize
        halfArea == area \div 2
    IN IF c.params.cellSize > 0
       THEN LET step == c.params.cellSize
                \* Math.max(3, NaN) is NaN, and `i < NaN` never holds
                n == IF IsFinite(area) THEN Max2(3, FloorDiv(area, step) + 1) ELSE 0
            IN [i \in 1..n |-> -halfArea + (i - 1) * step]
       ELSE LET resArg == IF IsFinite(c.resolution) THEN Max2(3, c.resolution) ELSE 0
            IN [i \in 1..resArg |->
                   IF IsFinite(area) THEN -halfArea + RoundDiv((i - 1) * area, resArg - 1)
                   ELSE NaN]

\* (cfg as any).buildingHeight ?? 10, in centimetres
BuildingHeight == 1000

\* RePrimeMap[seg.name] for the segment at index k of main
RePrimeOf(c, k) ==
    computeFacadeRePrime(buildFacadeElementsForSegment(c.main[k], BuildingHeight))

RECURSIVE SumCoord(_, _, _)
SumCoord(poly, axis, k) ==
    IF k > Len(poly) THEN 0 ELSE poly[k][axis] + SumCoord(poly, axis, k + 1)

\* centroid of the perimeter points ((0,0) without perimeter), in centimetres
Centroid(c) ==
    IF Len(c.poly) = 0 THEN <<0, 0>>
    ELSE <<RoundDiv(SumCoord(c.poly, 1, 1), Len(c.poly)),
           RoundDiv(SumCoord(c.poly, 2, 1), Len(c.poly))>>

\* clamped projection of (px, pz) on a segment: closest point and distance
ClosestOn(seg, px, pz) ==
    LET ax == seg.p1[1]
        az == seg.p1[2]
        vx == seg.p2[1] - ax
        vz == seg.p2[2] - az
        len2 == vx * vx + vz * vz
        num == (px - ax) * vx + (pz - az) * vz
        numC == IF len2 > 0 THEN Max2(0, Min2(len2, num)) ELSE 0
        cx == IF len2 > 0 THEN ax + RoundDiv(vx * numC, len2) ELSE ax
        cz == IF len2 > 0 THEN az + RoundDiv(vz * numC, len2) ELSE az
    IN [cx |-> cx, cz |-> cz, d |-> Hypot(px - cx, pz - cz)]

RECURSIVE NearestFrom(_, _, _, _, _, _)
\* the loop `for (const seg of main) if (d < bestDist) ...` from index k on;
\* best = 0 stands for bestSeg = null
NearestFrom(main, px, pz, k, best, bestDist) ==
    IF k > Len(main) THEN [k |-> best, d |-> bestDist]
    ELSE LET d == ClosestOn(main[k], px, pz).d
         IN IF best = 0 \/ d < bestDist
            THEN NearestFrom(main, px, pz, k + 1, k, d)
            ELSE NearestFrom(main, px, pz, k + 1, best, bestDist)

\* nominal level used when a segment has neither Lw nor Lp_in
NominalLw == 60 * DB

\* Number(cfg.Lw?.[segName] ?? NaN)
LwEntry(c, name) == IF name \in DOMAIN c.Lw THEN c.Lw[name] ELSE NaN

\* mutant: no nominal level, the missing Lw is used as it is
BaseLwRoomNoNominal(c, k) == LwEntry(c, c.main[k].name)

\* Lw_room of the base field for the segment at index k
BaseLwRoom(c, k) ==
    LET name == c.main[k].name
        raw == LwEntry(c, name)
        lpIn == c.params.Lp_in_map
        fromLpIn ==
            IF ~IsFinite(raw) /\ name \in DOMAIN lpIn /\ IsFinite(lpIn[name])
            THEN computeLwRoomFromLpIn(lpIn[name],
                     AreaSum(buildFacadeElementsForSegment(c.main[k], BuildingHeight), 1))
            ELSE raw
    IN IF ~IsFinite(fromLpIn) THEN NominalLw ELSE fromLpIn

\* Df_room and Df_out default of compute()
DfDefault == 1 * DB

\* base field Lp_out of one cell
BaseCell(c, px, pz) ==
    IF Len(c.poly) >= 3 /\ pointInPolygon(px, pz, c.poly) THEN NaN
    ELSE LET best == NearestFrom(c.main, px, pz, 1, 0, 0)
         IN IF best.k = 0 THEN NaN
            ELSE computeLpOutAtPoint(BaseLwRoom(c, best.k), RePrimeOf(c, best.k),
                                     DfDefault, DfDefault, Max2(1, best.d))

BaseField(c, axis) == Matrix(Len(axis), LAMBDA j, i : BaseCell(c, axis[i], axis[j]))

(***************************************************************************)
(* GaussianSmoother.apply: separable, mask-aware Gaussian blur             *)
(***************************************************************************)

\* kernel tap exp(-k^2 / (2 sigma^2)) in thousandths; sigma in hundredths of a cell
KernelTap(k, sigma) == ExpNeg((k * k * 5000000) \div (sigma * sigma))

\* clamp-to-edge index
ClampIdx(i, n) == Max2(1, Min2(n, i))

RECURSIVE TapSum(_, _, _, _, _)
\* over taps k..r: <<sum of weight * value, sum of weight>> of the finite taps
TapSum(line, pos, k, r, sigma) ==
    IF k > r THEN <<0, 0>>
    ELSE LET v == line[ClampIdx(pos + k, Len(line))]
             rest == TapSum(line, pos, k + 1, r, sigma)
             w == KernelTap(k, sigma)
         IN IF IsFinite(v) THEN <<rest[1] + w * v, rest[2] + w>> ELSE rest

\* one 1-D pass over a row or column: a non-finite centre is left as it is
SmoothLine(line, r, sigma) ==
    [pos \in 1..Len(line) |->
        IF ~IsFinite(line[pos]) THEN line[pos]
        ELSE LET t == TapSum(line, pos, -r, r, sigma)
             IN IF t[2] > 0 THEN RoundDiv(t[1], t[2]) ELSE line[pos]]

Transpose(m) == [i \in 1..Len(m) |-> [j \in 1..Len(m) |-> m[j][i]]]

\* GaussianSmoother.apply(grid, size, sigma): size <= 1 leaves the grid as it is
GaussianSmootherApply(grid, size, sigma) ==
    IF size <= 1 THEN grid
    ELSE LET odd == IF size % 2 = 0 THEN size + 1 ELSE size
             r == (odd - 1) \div 2
             horiz == [j \in 1..Len(grid) |-> SmoothLine(grid[j], r, sigma)]
             vert == [i \in 1..Len(grid) |-> SmoothLine(Transpose(horiz)[i], r, sigma)]
         IN Transpose(vert)

\* compute(): pre and final smoothing of the base field
PreSmoothSigma == 120
FinalSmoothSigma == 80
SmoothBase(c, base) ==
    GaussianSmootherApply(
        GaussianSmootherApply(base, c.params.preSmoothSize, PreSmoothSigma),
        0, FinalSmoothSigma)

(***************************************************************************)
(* generateSegmentBandEnergy (GradientFactory.ts)                          *)
(***************************************************************************)

\* options compute() passes on: dotThreshold, redMaxDist, redFalloffScale
DotThreshold == -180
RedMaxDist == 200
RedFalloffScale == 120

\* segment length, unit tangent and nominal normal (-tz, tx) in thousandths
SegFrame(seg) ==
    LET vx == seg.p2[1] - seg.p1[1]
        vz == seg.p2[2] - seg.p1[2]
        segLen == Hypot(vx, vz)
        tx == IF segLen > 0 THEN RoundDiv(vx * W, segLen) ELSE W
        tz == IF segLen > 0 THEN RoundDiv(vz * W, segLen) ELSE 0
    IN [vx |-> vx, vz |-> vz, segLen |-> segLen, tx |-> tx, tz |-> tz,
        nx |-> -tz, nz |-> tx]

\* sourceSpacing ?? max(0.25, (cellSize ?? 1) * 0.5), in centimetres
SampleSpacing(ps) ==
    IF ps.sourceSpacing > 0 THEN ps.sourceSpacing
    ELSE Max2(25, (IF ps.cellSize > 0 THEN ps.cellSize ELSE 100) \div 2)

\* number of samples of the linear bands and of the red band
NSamples(seg, ps) == Max2(1, Min2(256, CeilDiv(SegFrame(seg).segLen, SampleSpacing(ps))))
NRed(seg, ps) == Max2(1, Min2(2048, CeilDiv(SegFrame(seg).segLen, Max2(5, ps.redSampleSpacing))))

\* per_meter normalisation: 10*log10(max(1e-12, P_total / segLen * sampleLen))
LwPerSampleDb(Lw_room, n) == Max2(-120 * DB, Lw_room - Log10Milli(n))

\* sample s (0-based) of n at the sub-segment centre (s + 0.5) / n
SamplePos(seg, s, n) ==
    <<seg.p1[1] + RoundDiv((seg.p2[1] - seg.p1[1]) * (2 * s + 1), 2 * n),
      seg.p1[2] + RoundDiv((seg.p2[2] - seg.p1[2]) * (2 * s + 1), 2 * n)>>

\* colorSpread default (metres -> centimetres) and bandMaxDist default
ColorSpread(band) ==
    IF band = "red" THEN 120 ELSE IF band = "yellow" THEN 200
    ELSE IF band = "green" THEN 250 ELSE 300
BandMax(band) == IF band = "yellow" THEN 600 ELSE IF band = "green" THEN 1200 ELSE 1800

\* energy one sample of a linear band (yellow, green, blue) adds at a cell
LinearSampleEnergy(seg, band, Lw_room, RePrime, px, pz, s, ps) ==
    LET f == SegFrame(seg)
        n == NSamples(seg, ps)
        sp == SamplePos(seg, s, n)
        vrx == px - sp[1]
        vrz == pz - sp[2]
        rnorm == Hypot(vrx, vrz)
        dotNum == vrx * f.nx + vrz * f.nz
        lp == computeLpOutAtPoint(LwPerSampleDb(Lw_room, n), RePrime, 6 * DB, 0,
                                  Max2(1, rnorm))
        lateralSigma == Max2(30, ColorSpread(band))
        u1 == (rnorm * rnorm * 500) \div (lateralSigma * lateralSigma)
        u2 == (rnorm * 1000) \div Max2(10, (BandMax(band) * 12) \div 10)
        wDb == Max2(-120 * DB, ExpDb(u1 + u2))
    IN IF rnorm > 0 /\ dotNum <= DotThreshold * rnorm THEN ZeroE
       ELSE IF ~IsFinite(lp) THEN ZeroE
       ELSE PowTen(lp + wDb)

\* energy one sample of the red band adds at a cell (red stripe + yellow halo)
RedSampleEnergy(seg, Lw_room, RePrime, px, pz, s, ps) ==
    LET f == SegFrame(seg)
        n == NRed(seg, ps)
        sp == SamplePos(seg, s, n)
        vrx == px - sp[1]
        vrz == pz - sp[2]
        rnorm == Hypot(vrx, vrz)
        dotNum == vrx * f.nx + vrz * f.nz
        perp == dotNum \div W
        lp == computeLpOutAtPoint(LwPerSampleDb(Lw_room, n), RePrime, 6 * DB, 0,
                                  Max2(1, Abs(perp)))
        sigmaRed == Max2(25, Max2((RedMaxDist * 6) \div 10, (f.segLen * 12) \div 100))
        sigmaYellow == Max2(60, Max2((RedMaxDist * 12) \div 10, (f.segLen * 25) \div 100))
        uRed == (perp * perp * 500) \div (sigmaRed * sigmaRed)
        uYellow == (perp * perp * 500) \div (sigmaYellow * sigmaYellow)
        uFall == IF perp > RedMaxDist
                 THEN ((perp - RedMaxDist) * 1000) \div Max2(10, RedFalloffScale) ELSE 0
        eRed == PowTen(lp + ExpDb(uRed + uFall))
        \* yellowPeakFactor 0.55 * 0.75 = 0.4125 -> -3.85 dB
        eYellow == PowTen(lp + ExpDb(uYellow + uFall) - 385)
    IN IF rnorm = 0 \/ dotNum <= 0 \/ dotNum <= DotThreshold * rnorm THEN ZeroE
       ELSE IF ~IsFinite(lp) THEN ZeroE
       ELSE LinAdd(eRed, eYellow)

RECURSIVE SampleSum(_, _, _, _, _, _, _, _, _)
\* energy[j][i] += ... over the samples s..n-1
SampleSum(seg, band, Lw_room, RePrime, px, pz, s, n, ps) ==
    IF s >= n THEN ZeroE
    ELSE LinAdd(IF band = "red"
                THEN RedSampleEnergy(seg, Lw_room, RePrime, px, pz, s, ps)
                ELSE LinearSampleEnergy(seg, band, Lw_room, RePrime, px, pz, s, ps),
                SampleSum(seg, band, Lw_room, RePrime, px, pz, s + 1, n, ps))

\* number of samples the call walks (one debug point is pushed per sample)
BandSamples(seg, band, ps) ==
    IF SegFrame(seg).segLen = 0 THEN 0
    ELSE IF band = "red" THEN NRed(seg, ps) ELSE NSamples(seg, ps)

\* generateSegmentBandEnergy(...)[j][i] for the cell at (px, pz)
generateSegmentBandEnergy(seg, band, Lw_room, RePrime, px, pz, ps) ==
    IF SegFrame(seg).segLen = 0 THEN ZeroE
    ELSE SampleSum(seg, band, Lw_room, RePrime, px, pz, 0, BandSamples(seg, band, ps), ps)

(***************************************************************************)
(* compute(): overlay energy by bands, combination with the base field     *)
(***************************************************************************)

YellowThreshold == 50 * DB
RedThreshold == 70 * DB

\* bands generated for the segment at index k, in the order they are generated
\* (empty when the segment is skipped)
BandsFor(c, k) ==
    LET Lw_room == LwEntry(c, c.main[k].name)
    IN IF ~IsFinite(Lw_room) THEN << >>
       ELSE <<"blue", "green">>
            \o (IF Lw_room >= YellowThreshold THEN <<"yellow">> ELSE << >>)
            \o (IF Lw_room >= RedThreshold THEN <<"red">> ELSE << >>)

\* bandEnergy[j][i] of band number b of segment k at the cell (px, pz)
BandCell(c, k, b, px, pz) ==
    generateSegmentBandEnergy(c.main[k], BandsFor(c, k)[b], LwEntry(c, c.main[k].name),
                              RePrimeOf(c, k), px, pz, c.params)

\* `if (Number.isFinite(v) && v > 0) energyGrid[j][i] += v`
Accumulates(v) == v # ZeroE /\ v # PosInf

RECURSIVE EnergyFrom(_, _, _, _, _)
\* energyGrid[j][i] after the loops over segments k.. and bands b..
EnergyFrom(c, k, b, px, pz) ==
    IF k > Len(c.main) THEN ZeroE
    ELSE IF b > Len(BandsFor(c, k)) THEN EnergyFrom(c, k + 1, 1, px, pz)
    ELSE LET v == BandCell(c, k, b, px, pz)
             rest == EnergyFrom(c, k, b + 1, px, pz)
         IN IF Accumulates(v) THEN LinAdd(v, rest) ELSE rest

\* mutant: the energy grid is kept between calls instead of being rebuilt
EnergyGridKept(c, axis) ==
    Matrix(Len(axis), LAMBDA j, i :
        LinAdd(EnergyFrom(c, 1, 1, axis[i], axis[j]),
               IF energyGrid = NoMatrix THEN ZeroE ELSE energyGrid[j][i]))

EnergyGrid(c, axis) ==
    Matrix(Len(axis), LAMBDA j, i : EnergyFrom(c, 1, 1, axis[i], axis[j]))

\* per segment name: the bands that added energy to at least one cell
BandsAccumulated(c, axis) ==
    [name \in {c.main[k].name : k \in 1..Len(c.main)} |->
        LET k == CHOOSE q \in 1..Len(c.main) : c.main[q].name = name
        IN {BandsFor(c, k)[b] : b \in
              {q \in 1..Len(BandsFor(c, k)) :
                  \E j \in 1..Len(axis), i \in 1..Len(axis) :
                      Accumulates(BandCell(c, k, q, axis[i], axis[j]))}}]

RECURSIVE EmitCount(_, _, _)
\* debug points pushed by the band calls of segments k.., bands b..
EmitCount(c, k, b) ==
    IF k > Len(c.main) THEN 0
    ELSE IF b > Len(BandsFor(c, k)) THEN EmitCount(c, k + 1, 1)
    ELSE BandSamples(c.main[k], BandsFor(c, k)[b], c.params) + EmitCount(c, k, b + 1)

\* e > 0 ? 10 * Math.log10(e) : NaN
LogTen(e) == IF e = ZeroE THEN NaN ELSE e

\* combinedEnergy -> overlay: base energy plus band energy, back to dB
CombineCell(baseDb, e) ==
    LET baseEnergy == IF IsFinite(baseDb) THEN PowTen(baseDb) ELSE ZeroE
        srcEnergy == IF e # PosInf THEN e ELSE ZeroE
    IN LogTen(LinAdd(baseEnergy, srcEnergy))

Combine(base, energy) ==
    Matrix(Len(base), LAMBDA j, i : CombineCell(base[j][i], energy[j][i]))

(***************************************************************************)
(* compute(): robust per-segment hot-spot pass                             *)
(***************************************************************************)

\* edgeTaperWeight(pos, segLen, taper) in thousandths; pos and segLen in
\* centimetres, taper in thousandths
edgeTaperWeight(pos, segLen, taper) ==
    LET taperLen == Max2(0, Min2((segLen * taper) \div W, segLen \div 2))
    IN IF segLen <= 0 THEN W
       ELSE IF taperLen = 0 THEN W
       ELSE IF pos < taperLen THEN (pos * W) \div taperLen
       ELSE IF pos > segLen - taperLen THEN ((segLen - pos) * W) \div taperLen
       ELSE W

\* cfg.params?.cellSize ?? 1, in centimetres
CellSizeOr1(ps) == IF ps.cellSize > 0 THEN ps.cellSize ELSE 100
\* probeStep = max(0.05, cellSize * 0.35)
ProbeStep(ps) == Max2(5, (CellSizeOr1(ps) * 35) \div 100)

LateralTaper == 250
DefaultRedRadius == 250
DefaultRedDecay == 6
BlueRadius == 2000

\* the level a contribution must exceed: `contribution > bestValue`
Exceeds(a, b) == (IsFinite(b) /\ a > b) \/ b = NegInf

\* mutant: the final probe no longer discards the segment
FinalProbeKeeps(finalInside) == FALSE

\* `if (pointInPolygon(finalProbeX, finalProbeZ, cfg.poly)) continue`
FinalProbeDiscards(finalInside) == finalInside

\* lw of the hot-spot pass: the raw entry when finite, else 0
HotLw(c, name) == IF IsFinite(LwEntry(c, name)) THEN LwEntry(c, name) ELSE 0

\* tFrac outside [-0.08, 1.08]; num / len2 is tFrac
OffSegment(len2, num) ==
    len2 > 0 /\ (100 * num < -8 * len2 \/ 100 * num > 108 * len2)

\* nearEndBlend: 1 on the segment, falling to 0.18 beyond its ends
NearEndBlend(len2, num, excess) ==
    IF len2 > 0 /\ excess > 0 THEN Max2(180, W - (excess * 12500) \div len2) ELSE W

\* how far tFrac lies beyond [0, 1], times len2
Excess(len2, num) == IF num < 0 THEN -num ELSE IF num > len2 THEN num - len2 ELSE 0

\* probe point at probeStep from the closest point along (nx, nz)
Probe(closest, nx, nz, probeStep) ==
    <<closest.cx + RoundDiv(nx * probeStep, W), closest.cz + RoundDiv(nz * probeStep, W)>>

\* cfg.poly && cfg.poly.length ? pointInPolygon(probe) : false
ProbeAt(c, p) == Len(c.poly) > 0 /\ pointInPolygon(p[1], p[2], c.poly)
ProbeInside(c, closest, nx, nz) == ProbeAt(c, Probe(closest, nx, nz, ProbeStep(c.params)))

\* the nominal normal is flipped when only its own probe is inside, or when
\* both probes are inside and it points towards the centroid
Flips(outIsInside, inIsInside, dotCent) ==
    (outIsInside /\ ~inIsInside) \/ (outIsInside /\ inIsInside /\ dotCent < 0)

DotCent(f, closest, centroid) ==
    f.nx * (closest.cx - centroid[1]) + f.nz * (closest.cz - centroid[2])

Oriented(f, flip) ==
    [nx |-> IF flip THEN -f.nx ELSE f.nx, nz |-> IF flip THEN -f.nz ELSE f.nz]

\* the outward normal of the segment as the hot-spot pass orients it
OrientedNormal(c, f, closest) ==
    Oriented(f, Flips(ProbeInside(c, closest, f.nx, f.nz),
                      ProbeInside(c, closest, -f.nx, -f.nz),
                      DotCent(f, closest, Centroid(c))))

\* |tangential offset| of the cell from the closest point
TangentialAbs(f, closest, px, pz) ==
    Abs((px - closest.cx) * f.tx + (pz - closest.cz) * f.tz) \div W

RedRadiusOf(f) == Max2(DefaultRedRadius, (f.segLen * 6) \div 10)

\* the three tests that drop a segment after the probe test
Skipped(f, closest, n, px, pz, tangentialAbs, redRadius, cellSize) ==
    \/ tangentialAbs > Max2(Max2(1, (cellSize * 6) \div 10), (f.segLen * 6) \div 10)
         /\ closest.d > redRadius
    \/ (px - closest.cx) * n.nx + (pz - closest.cz) * n.nz <= 0
    \/ closest.d > redRadius /\ closest.d > BlueRadius

\* tClamped, the clamped fraction along the segment, which the weights read as metres
TClamped(len2, num) ==
    IF len2 > 0 THEN RoundDiv(Max2(0, Min2(len2, num)) * 100, len2) ELSE 0

\* exponent of a Gaussian weight: off^2 / (2 sigma^2), in thousandths
GaussExp(off, sigma) == (off * off * 500) \div (sigma * sigma)

\* lateralWeight^0.95 * alongWeight^0.95 * nearEndBlend, at least 0.002
CombinedLateralWeight(uLat, uAlong, nearEndBlend) ==
    Max2(2, (ExpNeg(((uLat + uAlong) * 95) \div 100) * nearEndBlend) \div W)

\* 0.6 * linContrib + 0.4 * logContrib
Mix(lw, distFront) ==
    (6 * Max2(0, lw - (DefaultRedDecay * DB * distFront) \div U)
       + 4 * (lw - (2 * Log10Milli(Max2(distFront, 1)) - 4000))) \div 10

SourceBoost(lw) == W + Max2(0, ((lw - 60 * DB) * W) \div (40 * DB))

Boosted(mix, wEdge, wFront, combinedLateralWeight, sourceBoost) ==
    (((((((mix * wEdge) \div W) * wFront) \div W) * combinedLateralWeight) \div W)
        * sourceBoost) \div W

\* contribution: boosted, raised to the near-facade floor, never above lw
Limited(lw, boosted, nearFacade) ==
    Min2(lw, IF nearFacade
             THEN Max2(boosted, Min2(lw, lw - (DefaultRedDecay * DB * 15) \div 100))
             ELSE boosted)

Contribution(lw, f, distFront, tangentialAbs, tClamped, nearEndBlend, cellSize) ==
    Limited(lw,
            Boosted(Mix(lw, distFront),
                    edgeTaperWeight(tClamped, f.segLen, LateralTaper),
                    Max2(0, W - (distFront * W) \div Max2(1, RedRadiusOf(f))),
                    CombinedLateralWeight(
                        GaussExp(tangentialAbs, Max2(cellSize \div 4, (f.segLen * 18) \div 100)),
                        GaussExp(Abs(tClamped - f.segLen \div 2),
                                 Max2(f.segLen \div 4, cellSize \div 2)),
                        nearEndBlend),
                    SourceBoost(lw)),
            distFront < Max2(10, cellSize \div 2))

HotResult(finalInside, skipped, contribution) ==
    [looked |-> TRUE, probeInside |-> finalInside,
     contribution |-> IF FinalProbeDiscards(finalInside) \/ skipped
                      THEN Null ELSE contribution]

HotOriented(c, f, closest, lw, px, pz, len2, num, n, tangentialAbs, cellSize) ==
    HotResult(ProbeInside(c, closest, n.nx, n.nz),
              Skipped(f, closest, n, px, pz, tangentialAbs, RedRadiusOf(f), cellSize),
              Contribution(lw, f, closest.d, tangentialAbs, TClamped(len2, num),
                           NearEndBlend(len2, num, Excess(len2, num)), cellSize))

HotDecide(c, f, closest, lw, px, pz, len2, num) ==
    IF ~(lw > 0) \/ OffSegment(len2, num)
    THEN [looked |-> FALSE, probeInside |-> FALSE, contribution |-> Null]
    ELSE HotOriented(c, f, closest, lw, px, pz, len2, num, OrientedNormal(c, f, closest),
                     TangentialAbs(f, closest, px, pz), CellSizeOr1(c.params))

HotProjected(c, seg, f, px, pz) ==
    HotDecide(c, f, ClosestOn(seg, px, pz), HotLw(c, seg.name), px, pz,
              f.vx * f.vx + f.vz * f.vz,
              (px - seg.p1[1]) * f.vx + (pz - seg.p1[2]) * f.vz)

\* hot-spot pass of one segment at one cell: whether the segment is looked at
\* (lw > 0 and projection within tolerance), whether its final outward probe is
\* inside the perimeter, and its contribution (Null when it contributes nothing)
HotSeg(c, k, px, pz) == HotProjected(c, c.main[k], SegFrame(c.main[k]), px, pz)

RECURSIVE BestFrom(_, _, _, _, _)
\* bestValue after the segments k..: the running maximum of the contributions
BestFrom(c, k, px, pz, bestValue) ==
    IF k > Len(c.main) THEN bestValue
    ELSE LET h == HotSeg(c, k, px, pz)
         IN IF h.contribution # Null /\ Exceeds(h.contribution, bestValue)
            THEN BestFrom(c, k + 1, px, pz, h.contribution)
            ELSE BestFrom(c, k + 1, px, pz, bestValue)

\* Math.max(a, b) on doubles
MathMax(a, b) ==
    IF a = NaN \/ b = NaN THEN NaN
    ELSE IF a = PosInf \/ b = PosInf THEN PosInf
    ELSE IF a = NegInf THEN b
    ELSE IF b = NegInf THEN a
    ELSE Max2(a, b)

\* overlay[j][i] after the hot-spot pass
HotCell(c, px, pz, ov) ==
    IF Len(c.poly) > 0 /\ pointInPolygon(px, pz, c.poly) THEN ov
    ELSE MathMax(ov, BestFrom(c, 1, px, pz, ov))

HotSpot(c, axis, ov) ==
    Matrix(Len(axis), LAMBDA j, i : HotCell(c, axis[i], axis[j], ov[j][i]))

\* per cell and segment index: what the hot-spot pass did ("inside" cells are
\* not visited at all)
HotTrace(c, axis) ==
    Matrix(Len(axis), LAMBDA j, i :
        [k \in 1..Len(c.main) |->
            IF Len(c.poly) > 0 /\ pointInPolygon(axis[i], axis[j], c.poly)
            THEN [looked |-> FALSE, probeInside |-> FALSE, contribution |-> Null]
            ELSE HotSeg(c, k, axis[i], axis[j])])

(***************************************************************************)
(* compute(): overlay smoothing, perimeter blending, cap and output        *)
(***************************************************************************)

\* max(1, overlaySmoothSize ?? 9) and max(0.1, overlaySmoothSigma ?? 3.0)
OverlaySmoothSigma == 300
SmoothOverlay(c, ov) ==
    GaussianSmootherApply(ov, Max2(1, c.params.overlaySmoothSize), OverlaySmoothSigma)

\* mutant: the blend takes the overlay everywhere
MaskAllOutside(c, px, pz) == TRUE

\* mask[j][i]: true = outside the perimeter
Mask(c, px, pz) == IF Len(c.poly) > 0 THEN ~pointInPolygon(px, pz, c.poly) ELSE TRUE

\* outside the perimeter the smoothed overlay (when finite), else the smoothed base
BlendCell(c, px, pz, val, baseVal) ==
    IF Mask(c, px, pz) THEN (IF IsFinite(val) THEN val ELSE baseVal) ELSE baseVal

Blend(c, axis, smoothedOverlay, base) ==
    Matrix(Len(axis), LAMBDA j, i :
        BlendCell(c, axis[i], axis[j], smoothedOverlay[j][i], base[j][i]))

\* the finite cells of a matrix
FiniteCells(m) == {m[j][i] : j \in 1..Len(m), i \in 1..Len(m)} \ {NaN, PosInf, NegInf, Null}
SetMax(S) == CHOOSE v \in S : \A u \in S : u <= v
SetMin(S) == CHOOSE v \in S : \A u \in S : v <= u

\* Object.values(cfg.Lw).map(Number).filter(Number.isFinite)
SuppliedLwVals(c) == {c.Lw[k] : k \in DOMAIN c.Lw} \ {NaN, PosInf, NegInf}

\* mutant: no cap
CapCellNone(c, v) == v

\* cap: no finite cell above the largest supplied Lw
CapCell(c, v) ==
    IF SuppliedLwVals(c) # {} /\ IsFinite(v) THEN Min2(v, SetMax(SuppliedLwVals(c))) ELSE v

Cap(c, m) == Matrix(Len(m), LAMBDA j, i : CapCell(c, m[j][i]))

\* min and max returned: over the finite cells after the cap, else those before
\* the cap, else 0
FinalMin(before, after) ==
    IF FiniteCells(after) # {} THEN SetMin(FiniteCells(after))
    ELSE IF FiniteCells(before) # {} THEN SetMin(FiniteCells(before)) ELSE 0
FinalMax(before, after) ==
    IF FiniteCells(after) # {} THEN SetMax(FiniteCells(after))
    ELSE IF FiniteCells(before) # {} THEN SetMax(FiniteCells(before)) ELSE 0

\* mutant: the matrix is returned as it is
ZForPlotRaw(m) == m

\* zForPlot: non-finite cells become null
ZForPlot(m) == Matrix(Len(m), LAMBDA j, i : IF IsFinite(m[j][i]) THEN m[j][i] ELSE Null)

\* the object compute() returns
Returned(c, axis, blended) ==
    [x |-> axis, y |-> axis, z |-> ZForPlot(Cap(c, blended)),
     min |-> FinalMin(blended, Cap(c, blended)),
     max |-> FinalMax(blended, Cap(c, blended)),
     poly |-> c.poly]

(***************************************************************************)
(* WaveEmitter.generateSources: point emitters sampled on the facades      *)
(***************************************************************************)

\* the host's sample spacing: params.sourceSpacing ?? max(0.25, min(1.0, 16 / 12)),
\* and its outward offset of 0.05 m, in centimetres
SourceSpacingOf(ps) == IF ps.sourceSpacing > 0 THEN ps.sourceSpacing ELSE 100
OutwardOffset == 5

\* the lwMap after the normalisation loop: a non-finite value becomes 0
NormalizedLw(m) == [k \in DOMAIN m |-> IF IsFinite(m[k]) THEN m[k] ELSE 0]

RECURSIVE MidSum(_, _, _)
\* sum over the segments k.. of p1 + p2 along one axis (twice the midpoints)
MidSum(mainSegments, axis, k) ==
    IF k > Len(mainSegments) THEN 0
    ELSE mainSegments[k].p1[axis] + mainSegments[k].p2[axis]
         + MidSum(mainSegments, axis, k + 1)

\* the centre as exact sums: the centre is (x / (2 n), z / (2 n)); [0, 0] when
\* there is neither a perimeter nor a segment
CenterSums(polyLoop, mainSegments) ==
    IF Len(polyLoop) > 0
    THEN [n |-> Len(polyLoop), x |-> 2 * SumCoord(polyLoop, 1, 1),
          z |-> 2 * SumCoord(polyLoop, 2, 1)]
    ELSE IF Len(mainSegments) > 0
    THEN [n |-> Len(mainSegments), x |-> MidSum(mainSegments, 1, 1),
          z |-> MidSum(mainSegments, 2, 1)]
    ELSE [n |-> 1, x |-> 0, z |-> 0]

\* Math.hypot(vx, vz) || 1, in centimetres
LenEdge(seg) ==
    IF Hypot(seg.p2[1] - seg.p1[1], seg.p2[2] - seg.p1[2]) = 0 THEN U
    ELSE Hypot(seg.p2[1] - seg.p1[1], seg.p2[2] - seg.p1[2])

\* (mx - center[0]) * nx + (mz - center[1]) * nz, times 2 n
CenterDot(seg, ctr, nx, nz) ==
    ((seg.p1[1] + seg.p2[1]) * ctr.n - ctr.x) * nx
    + ((seg.p1[2] + seg.p2[2]) * ctr.n - ctr.z) * nz

\* nx /= nlen with nlen = Math.hypot(nx, nz) || 1
UnitOf(nx, nz, nlen) ==
    [nx |-> RoundDiv(nx * W, IF nlen = 0 THEN W ELSE nlen),
     nz |-> RoundDiv(nz * W, IF nlen = 0 THEN W ELSE nlen)]

FlippedIf(flip, nx, nz) == UnitOf(IF flip THEN -nx ELSE nx, IF flip THEN -nz ELSE nz,
                                  Hypot(nx, nz))

\* the normal (-uz, ux) of a segment, turned round when it points towards the
\* centre, in thousandths
EdgeNormalOf(seg, ctr, ux, uz) == FlippedIf(CenterDot(seg, ctr, -uz, ux) < 0, -uz, ux)
EdgeNormal(seg, ctr) ==
    EdgeNormalOf(seg, ctr, RoundDiv((seg.p2[1] - seg.p1[1]) * W, LenEdge(seg)),
                 RoundDiv((seg.p2[2] - seg.p1[2]) * W, LenEdge(seg)))

\* Math.max(1, Math.ceil(lenEdge / sampleSpacing)); the quotient by a zero
\* spacing is Infinity
Samples(lenEdge, sampleSpacing) ==
    IF sampleSpacing = 0 THEN PosInf
    ELSE IF sampleSpacing < 0 THEN 1
    ELSE Max2(1, CeilDiv(lenEdge, sampleSpacing))

\* Lw of a facade: its entry in the map, else that of a direction key (none of
\* the maps holds one), else 0
LwForEdge(lw, name) == IF name \in DOMAIN lw THEN lw[name] ELSE 0

\* the sources of segment k, n samples at t = (sIdx + 0.5) / n; x and z are held
\* times den = 2 n, so that the position is exact
SegmentSources(seg, k, n, normal, lwForEdge, outwardOffset) ==
    [i \in 1..n |->
        [x |-> 2 * n * seg.p1[1] + (seg.p2[1] - seg.p1[1]) * (2 * i - 1)
                 + 2 * n * RoundDiv(normal.nx * outwardOffset, W),
         z |-> 2 * n * seg.p1[2] + (seg.p2[2] - seg.p1[2]) * (2 * i - 1)
                 + 2 * n * RoundDiv(normal.nz * outwardOffset, W),
         den |-> 2 * n, nx |-> normal.nx, nz |-> normal.nz, Lw |-> lwForEdge,
         seg |-> k]]

RECURSIVE SourcesFrom(_, _, _, _, _, _)
\* the sources pushed for the segments k..
SourcesFrom(segs, k, ctr, lw, sampleSpacing, outwardOffset) ==
    IF k > Len(segs) THEN << >>
    ELSE SegmentSources(segs[k], k, Samples(LenEdge(segs[k]), sampleSpacing),
                        EdgeNormal(segs[k], ctr), LwForEdge(lw, segs[k].name),
                        outwardOffset)
         \o SourcesFrom(segs, k + 1, ctr, lw, sampleSpacing, outwardOffset)

\* the segments sampled: mainSegments when given, else the edges of polyLoop
SampledSegments(polyLoop, mainSegments) ==
    IF Len(mainSegments) > 0 THEN mainSegments ELSE MainOf(polyLoop)

\* the call returns only if every sample count is finite
SamplingEnds(polyLoop, mainSegments, sampleSpacing) ==
    Len(SampledSegments(polyLoop, mainSegments)) = 0 \/ sampleSpacing # 0

generateSources(polyLoop, mainSegments, sampleSpacing, outwardOffset, lw) ==
    SourcesFrom(SampledSegments(polyLoop, mainSegments), 1,
                CenterSums(polyLoop, mainSegments), NormalizedLw(lw),
                sampleSpacing, outwardOffset)

(***************************************************************************)
(* WaveEmitter.generateSources of ControlsPanel.tsx: the perimeter edges,   *)
(* sampled at t = sIdx / samples for sIdx = 0..samples                      *)
(***************************************************************************)

\* the normal (-uz, ux), turned round when it points towards the centre
LoopNormalOf(seg, ctr, ux, uz) ==
    IF CenterDot(seg, ctr, -uz, ux) < 0 THEN [nx |-> uz, nz |-> -ux]
    ELSE [nx |-> -uz, nz |-> ux]
LoopNormal(seg, ctr) ==
    LoopNormalOf(seg, ctr, RoundDiv((seg.p2[1] - seg.p1[1]) * W, LenEdge(seg)),
                 RoundDiv((seg.p2[2] - seg.p1[2]) * W, LenEdge(seg)))

\* mainSegments[k].name, else `segment-k`
LoopSegmentName(mainSegments, k) ==
    IF k <= Len(mainSegments) THEN mainSegments[k].name ELSE k - 1

\* Number(lwMap[segmentName]) || 50
LoopLwForEdge(lw, name) ==
    IF name \in DOMAIN lw /\ IsFinite(lw[name]) /\ lw[name] # 0 THEN lw[name] ELSE 50 * DB

\* the n + 1 sources of edge k, at t = sIdx / n; x and z are held times den = n
LoopSegmentSources(seg, k, n, normal, lwForEdge, outwardOffset) ==
    [i \in 1..(n + 1) |->
        [x |-> n * seg.p1[1] + (seg.p2[1] - seg.p1[1]) * (i - 1)
                 + n * RoundDiv(normal.nx * outwardOffset, W),
         z |-> n * seg.p1[2] + (seg.p2[2] - seg.p1[2]) * (i - 1)
                 + n * RoundDiv(normal.nz * outwardOffset, W),
         den |-> n, nx |-> normal.nx, nz |-> normal.nz, Lw |-> lwForEdge,
         seg |-> k]]

RECURSIVE LoopSourcesFrom(_, _, _, _, _, _, _)
\* the sources pushed for the edges k..
LoopSourcesFrom(edges, mainSegments, k, ctr, lw, sampleSpacing, outwardOffset) ==
    IF k > Len(edges) THEN << >>
    ELSE LoopSegmentSources(edges[k], k, Samples(LenEdge(edges[k]), sampleSpacing),
                            LoopNormal(edges[k], ctr),
                            LoopLwForEdge(lw, LoopSegmentName(mainSegments, k)),
                            outwardOffset)
         \o LoopSourcesFrom(edges, mainSegments, k + 1, ctr, lw, sampleSpacing,
                            outwardOffset)

generateSourcesOnLoop(polyLoop, mainSegments, sampleSpacing, outwardOffset, lw) ==
    IF Len(polyLoop) = 0 THEN << >>
    ELSE LoopSourcesFrom(MainOf(polyLoop), mainSegments, 1, CenterSums(polyLoop, << >>),
                         lw, sampleSpacing, outwardOffset)

(***************************************************************************)
(* Colour scales: getColorscale and buildThresholdColorscale of part_001,   *)
(* of hooks/useSyncSegments.ts and of acoustics/ColorMap.ts                 *)
(***************************************************************************)

\* positions are held in units of 1 / 12700, so that i / 127 and the decimal
\* positions of the code are integers
PosUnit == 12700

\* "#00224d", "#00cccc", "#00cc66", "#ffff33", "#ff0000", "#ff8c00", "#00539a"
\* as <<r, g, b>>
DeepBlue == <<0, 34, 77>>
Cyan == <<0, 204, 204>>
Green == <<0, 204, 102>>
Yellow == <<255, 255, 51>>
Red == <<255, 0, 0>>
Orange == <<255, 140, 0>>
MidBlue == <<0, 83, 154>>

Stop(p, color) == [p |-> p, color |-> color]

\* getColorscale of part_001 and of useSyncSegments.ts: five anchors
getColorscale ==
    <<Stop(0, DeepBlue), Stop(2540, Cyan), Stop(5080, Green), Stop(8890, Yellow),
      Stop(PosUnit, Red)>>

\* getColorscale of ColorMap.ts: seven anchors
ColorMap_getColorscale ==
    <<Stop(0, DeepBlue), Stop(2540, MidBlue), Stop(5080, Cyan), Stop(6985, Green),
      Stop(8890, Yellow), Stop(10795, Orange), Stop(PosUnit, Red)>>

\* the thresholds argument when it is not given
NoThresholds == [present |-> FALSE, red |-> Null, yellow |-> Null, green |-> Null,
                 blue |-> Null]

\* mutant: a < b
LessJS(a, b) == a # NaN /\ b # NaN /\ a < b

\* a <= b on doubles: false when one of them is NaN
LeqJS(a, b) == a # NaN /\ b # NaN /\ a <= b

\* v ?? d
OrDefault(v, d) == IF v = Null THEN d ELSE v

\* Math.max(0, Math.min(1, v))
clamp01(v) == IF v = NaN THEN NaN ELSE Max2(0, Min2(PosUnit, v))

\* mapPos: the threshold t in the range, kept within [0.02, 0.98]; t / 100
\* when the range is narrower than 1e-6
mapPos(t, lo, hi) ==
    IF ~IsFinite(t) \/ ~IsFinite(lo) \/ ~IsFinite(hi) THEN NaN
    ELSE IF hi - lo < 1 THEN Max2(254, Min2(12446, RoundDiv(t * 127, DB)))
    ELSE Max2(254, Min2(12446, RoundDiv((t - lo) * PosUnit, hi - lo)))

\* cyanT: blueThreshold when finite, else max(0, greenT - 15)
CyanT(th, greenT) ==
    IF IsFinite(th.blue) THEN th.blue
    ELSE IF greenT = NaN THEN NaN ELSE Max2(0, greenT - 15 * DB)

RECURSIVE InsertByPos(_, _)
\* a put behind the anchors that are not after it (the sort is stable)
InsertByPos(sorted, a) ==
    IF Len(sorted) = 0 THEN <<a>>
    ELSE IF a.p < sorted[Len(sorted)].p
    THEN Append(InsertByPos(SubSeq(sorted, 1, Len(sorted) - 1), a), sorted[Len(sorted)])
    ELSE Append(sorted, a)

RECURSIVE SortByPos(_, _)
\* the first k anchors, sorted by position
SortByPos(anchors, k) ==
    IF k = 0 THEN << >> ELSE InsertByPos(SortByPos(anchors, k - 1), anchors[k])

HasFinitePos(a) == IsFinite(a.p)

\* the anchors with a finite position, sorted
SortedAnchors(th, lo, hi, greenT) ==
    SortByPos(SelectSeq(<<Stop(0, DeepBlue),
                          Stop(mapPos(CyanT(th, greenT), lo, hi), Cyan),
                          Stop(mapPos(greenT, lo, hi), Green),
                          Stop(mapPos(OrDefault(th.yellow, 50 * DB), lo, hi), Yellow),
                          Stop(mapPos(OrDefault(th.red, 70 * DB), lo, hi), Red)>>,
                        HasFinitePos),
              Len(SelectSeq(<<Stop(0, DeepBlue),
                          Stop(mapPos(CyanT(th, greenT), lo, hi), Cyan),
                          Stop(mapPos(greenT, lo, hi), Green),
                          Stop(mapPos(OrDefault(th.yellow, 50 * DB), lo, hi), Yellow),
                          Stop(mapPos(OrDefault(th.red, 70 * DB), lo, hi), Red)>>,
                        HasFinitePos)))

\* an anchor at 0 in front and one at 1 behind when the list does not reach them
CoverFront(anchors) ==
    IF anchors[1].p > 0 THEN <<Stop(0, DeepBlue)>> \o anchors ELSE anchors
CoverBack(anchors) ==
    IF anchors[Len(anchors)].p < PosUnit
    THEN Append(anchors, Stop(PosUnit, anchors[Len(anchors)].color)) ELSE anchors
CoverEnds(anchors) == CoverBack(CoverFront(anchors))

\* minGap = 1e-2
MinGap == 127

RECURSIVE GapForward(_, _)
GapForward(anchors, i) ==
    IF i > Len(anchors) THEN anchors
    ELSE GapForward(IF anchors[i].p < anchors[i - 1].p + MinGap
                    THEN [anchors EXCEPT ![i].p = anchors[i - 1].p + MinGap]
                    ELSE anchors, i + 1)

RECURSIVE GapBackward(_, _)
GapBackward(anchors, i) ==
    IF i < 1 THEN anchors
    ELSE GapBackward(IF anchors[i].p > anchors[i + 1].p - MinGap
                     THEN [anchors EXCEPT ![i].p = anchors[i + 1].p - MinGap]
                     ELSE anchors, i - 1)

\* both passes, then every position clamped to [0, 1]
Spaced(anchors) ==
    [k \in 1..Len(anchors) |->
        Stop(clamp01(GapBackward(GapForward(anchors, 2), Len(anchors) - 1)[k].p),
             anchors[k].color)]

RECURSIVE IntervalFrom(_, _, _)
\* the first pair of neighbours k.. that holds pos, else the first and the last anchor
IntervalFrom(anchors, pos, k) ==
    IF k > Len(anchors) - 1 THEN <<1, Len(anchors)>>
    ELSE IF pos >= anchors[k].p /\ pos <= anchors[k + 1].p THEN <<k, k + 1>>
    ELSE IntervalFrom(anchors, pos, k + 1)

\* one channel of interpColor at t = num / den, rounded
Channel(a, b, num, den) == a + RoundDiv((b - a) * num, den)

\* interpColor(c1, c2, (pos - a.p) / max(1e-9, span)); with span = 0 the
\* quotient is 0 for pos = a.p and beyond every colour otherwise
interpColor(c1, c2, num, span) ==
    IF span <= 0 THEN (IF num = 0 THEN c1 ELSE <<NaN, NaN, NaN>>)
    ELSE <<Channel(c1[1], c2[1], num, span), Channel(c1[2], c2[2], num, span),
           Channel(c1[3], c2[3], num, span)>>

\* the stop sampled at pos = i / (N - 1) between the anchors a and b
SampledBetween(a, b, pos) == Stop(clamp01(pos), interpColor(a.color, b.color, pos - a.p, b.p - a.p))
SampledStop(anchors, pos, iv) == SampledBetween(anchors[iv[1]], anchors[iv[2]], pos)

\* N = 128 stops
NStops == 128
SampledRamp(anchors) ==
    [i \in 1..NStops |->
        SampledStop(anchors, (i - 1) * 100, IntervalFrom(anchors, (i - 1) * 100, 1))]

RECURSIVE MaxPosIn(_, _, _)
\* the largest position among the stops lo..hi
MaxPosIn(stops, lo, hi) ==
    IF lo = hi THEN stops[lo].p
    ELSE Max2(MaxPosIn(stops, lo, (lo + hi) \div 2),
              MaxPosIn(stops, (lo + hi) \div 2 + 1, hi))

RECURSIVE CompactedIn(_, _, _, _)
\* the loop `if (pos <= lastPos) continue; uniq.push(...); lastPos = pos` over
\* the stops lo..hi, entered with lastPos: lastPos is always the largest
\* position met so far, so the two halves of the range are walked on their own
CompactedIn(stops, lo, hi, lastPos) ==
    IF lo > hi THEN << >>
    ELSE IF lo = hi THEN (IF stops[lo].p <= lastPos THEN << >> ELSE <<stops[lo]>>)
    ELSE CompactedIn(stops, lo, (lo + hi) \div 2, lastPos)
         \o CompactedIn(stops, (lo + hi) \div 2 + 1, hi,
                        Max2(lastPos, MaxPosIn(stops, lo, (lo + hi) \div 2)))

\* mutant: every stop is kept
CompactedNone(sampled, k, lastPos) == sampled

\* the stops k.. whose position lies after the last one kept
Compacted(sampled, k, lastPos) == CompactedIn(sampled, k, Len(sampled), lastPos)

\* `if (uniq.length < 2) return getColorscale()`
OrFallback(uniq, fallback) == IF Len(uniq) < 2 THEN fallback ELSE uniq

\* buildThresholdColorscale of part_001
buildThresholdColorscale(lo, hi, th) ==
    IF LeqJS(hi, lo) \/ ~th.present THEN getColorscale
    ELSE OrFallback(
             Compacted(SampledRamp(Spaced(CoverEnds(
                 SortedAnchors(th, lo, hi, OrDefault(th.green, 40 * DB))))), 1, -PosUnit),
             getColorscale)

\* buildThresholdColorscale of useSyncSegments.ts: no minimum gap
useSyncSegments_buildThresholdColorscale(lo, hi, th) ==
    IF LeqJS(hi, lo) \/ ~th.present THEN getColorscale
    ELSE OrFallback(
             Compacted(SampledRamp(CoverEnds(
                 SortedAnchors(th, lo, hi, OrDefault(th.green, 40 * DB)))), 1, -PosUnit),
             getColorscale)

\* toNorm of ColorMap.ts: clamp((v - zmin) / (zmax - zmin)); the quotient by
\* an empty range is +-Infinity, or NaN for v = zmin
toNorm(v, lo, hi) ==
    IF ~IsFinite(v) \/ ~IsFinite(lo) \/ ~IsFinite(hi) THEN NaN
    ELSE IF hi = lo THEN (IF v > lo THEN PosUnit ELSE IF v < lo THEN 0 ELSE NaN)
    ELSE IF hi < lo THEN clamp01(RoundDiv((lo - v) * PosUnit, lo - hi))
    ELSE clamp01(RoundDiv((v - lo) * PosUnit, hi - lo))

\* blueT = min(greenT - 10, zmin + (zmax - zmin) * 0.15)
BlueT(greenT, lo, hi) ==
    IF ~IsFinite(greenT) \/ ~IsFinite(lo) \/ ~IsFinite(hi) THEN NaN
    ELSE Min2(greenT - 10 * DB, lo + RoundDiv((hi - lo) * 15, 100))

\* t <= zmin || t >= zmax
OutOfRange(t, lo, hi) == LeqJS(t, lo) \/ LeqJS(hi, t)

\* (a + b) / 2 on doubles
Half(a, b) == IF a = NaN \/ b = NaN THEN NaN ELSE RoundDiv(a + b, 2)

\* p1 + (p2 - p1) * k / 3
Third(p1, p2, k) == IF p1 = NaN \/ p2 = NaN THEN NaN ELSE p1 + RoundDiv((p2 - p1) * k, 3)

RECURSIVE SmoothStops(_, _)
\* every stop i.. followed by two stops in between it and the next one
SmoothStops(stops, i) ==
    IF i >= Len(stops) THEN <<stops[Len(stops)]>>
    ELSE <<stops[i],
           Stop(Third(stops[i].p, stops[i + 1].p, 1),
                interpColor(stops[i].color, stops[i + 1].color, 1, 3)),
           Stop(Third(stops[i].p, stops[i + 1].p, 2),
                interpColor(stops[i].color, stops[i + 1].color, 2, 3))>>
         \o SmoothStops(stops, i + 1)

\* pos = max(0, min(1, Number.isFinite(p) ? p : 0))
FinitePos(stops) ==
    [k \in 1..Len(stops) |->
        Stop(IF IsFinite(stops[k].p) THEN clamp01(stops[k].p) ELSE 0, stops[k].color)]

\* the evenly distributed scale used when a threshold is outside the range
StopsEven ==
    <<Stop(0, DeepBlue), Stop(2286, Cyan), Stop(4826, Green), Stop(7366, Yellow),
      Stop(9652, Orange), Stop(PosUnit, Red)>>

\* the stops at the thresholds
StopsAt(lo, hi, redT, yellowT, greenT) ==
    <<Stop(0, DeepBlue), Stop(toNorm(BlueT(greenT, lo, hi), lo, hi), DeepBlue),
      Stop(toNorm(greenT, lo, hi), Green), Stop(toNorm(Half(greenT, yellowT), lo, hi), Cyan),
      Stop(toNorm(yellowT, lo, hi), Yellow), Stop(toNorm(Half(yellowT, redT), lo, hi), Orange),
      Stop(toNorm(redT, lo, hi), Red), Stop(PosUnit, Red)>>

ColorMap_build(lo, hi, redT, yellowT, greenT) ==
    OrFallback(
        Compacted(FinitePos(SmoothStops(
            IF OutOfRange(redT, lo, hi) \/ OutOfRange(greenT, lo, hi)
               \/ OutOfRange(yellowT, lo, hi)
            THEN StopsEven ELSE StopsAt(lo, hi, redT, yellowT, greenT), 1)), 1, -PosUnit),
        ColorMap_getColorscale)

\* buildThresholdColorscale of ColorMap.ts
ColorMap_buildThresholdColorscale(lo, hi, th) ==
    IF LeqJS(hi, lo) \/ ~th.present THEN ColorMap_getColorscale
    ELSE ColorMap_build(lo, hi, OrDefault(th.red, 90 * DB), OrDefault(th.yellow, 75 * DB),
                        OrDefault(th.green, 60 * DB))

(***************************************************************************)
(* State machine: one configuration object, compute() called on it         *)
(***************************************************************************)

\* generateSources not called yet
NoSources == <<[x |-> 0, z |-> 0, den |-> 0, nx |-> 0, nz |-> 0, Lw |-> 0, seg |-> 0]>>

NoResult == [x |-> << >>, y |-> << >>, z |-> << >>, min |-> Null, max |-> Null, poly |-> << >>]

\* nothing computed yet on the configuration c
NothingComputed(c) ==
    /\ cfg = c
    /\ emitPoints = 0
    /\ pc = "idle"
    /\ calls = 0
    /\ xs = << >>
    /\ output = NoMatrix
    /\ smoothed = NoMatrix
    /\ bandsOf = << >>
    /\ energyGrid = NoMatrix
    /\ overlay = NoMatrix
    /\ hot = NoMatrix
    /\ finalSmooth = NoMatrix
    /\ result = NoResult
    /\ firstResult = NoResult
    /\ lwMap = c.Lw
    /\ sources = NoSources
    /\ loopSources = NoSources

\* no facade handed to computeFacadeRePrime
NoFacadeCall ==
    /\ facadeElements = << >>
    /\ rePrimeISO = Null
    /\ rePrimeGF = Null

\* generateSources not entered step by step
NoSamplerCall ==
    /\ spacingArg = Null
    /\ samplerPc = "idle"
    /\ segK = 0
    /\ sIdx = 0
    /\ pushed = << >>

\* computeGridLpFromSources not called
NoGridCall ==
    /\ gridSources = << >>
    /\ gridOptions = [given |-> FALSE, dbPerMeter |-> Null, maxDist |-> Null]
    /\ gridOut = [state |-> "none", out |-> << >>]

\* generateRedHeatmapFromFacade not called
NoRedCall ==
    /\ yellowBlur = 0
    /\ redPc = "idle"
    /\ redDb = << >>
    /\ yellowDb = << >>
    /\ redOut = << >>

\* the Home component is not mounted
NoUiCall ==
    /\ building = [shapeType |-> "undefined", LwBySegment |-> << >>]
    /\ shapeTypeOfConfig = "undefined"
    /\ committed = [building |-> [shapeType |-> "undefined", LwBySegment |-> << >>],
                    shapeType |-> "undefined"]
    /\ buildingChanged = FALSE
    /\ loopPending = FALSE
    /\ syncPending = FALSE
    /\ syncMounted = FALSE
    /\ lLoop = 0
    /\ installed = [state |-> "none", arr |-> << >>]
    /\ reinits = 0

\* usePlotlyTexture is not mounted
NoTextureCall ==
    /\ runs = << >>
    /\ texture = 0
    /\ hookMounted = FALSE
    /\ hiddenDivRef = 0
    /\ containers = {}
    /\ created = {}
    /\ disposed = {}
    /\ published = << >>

\* no React component is mounted
NoReactCall == NoUiCall /\ NoTextureCall

\* nothing of the host code has run
NoHostCall == NoSamplerCall /\ NoGridCall /\ NoRedCall /\ NoReactCall

\* no colour scale asked for
NoColorCall ==
    /\ zmin = 0
    /\ zmax = 0
    /\ thresholds = NoThresholds
    /\ builder = "none"
    /\ colorscale = << >>

Init ==
    /\ \E c \in Configs : NothingComputed(c)
    /\ NoFacadeCall
    /\ NoColorCall
    /\ NoHostCall

\* compute() is entered: grid construction
BuildGrid ==
    /\ pc = "idle"
    /\ calls < MaxCalls
    /\ xs' = GridAxis(cfg)
    /\ pc' = "base"
    /\ UNCHANGED <<cfg, emitPoints, calls, output, smoothed, bandsOf, energyGrid,
                   overlay, hot, finalSmooth, result, firstResult>>
    /\ UNCHANGED auxVars

\* base physical field
ComputeBase ==
    /\ pc = "base"
    /\ output' = BaseField(cfg, xs)
    /\ pc' = "smooth"
    /\ UNCHANGED <<cfg, emitPoints, calls, xs, smoothed, bandsOf, energyGrid,
                   overlay, hot, finalSmooth, result, firstResult>>
    /\ UNCHANGED auxVars

\* pre and final smoothing of the base field
SmoothBaseField ==
    /\ pc = "smooth"
    /\ smoothed' = SmoothBase(cfg, output)
    /\ pc' = "bands"
    /\ UNCHANGED <<cfg, emitPoints, calls, xs, output, bandsOf, energyGrid,
                   overlay, hot, finalSmooth, result, firstResult>>
    /\ UNCHANGED auxVars

\* per-segment band energy, accumulated in energyGrid; with debugEmit the
\* sample points are pushed on the __emitPoints array of the configuration
AccumulateBands ==
    /\ pc = "bands"
    /\ energyGrid' = EnergyGrid(cfg, xs)
    /\ bandsOf' = BandsAccumulated(cfg, xs)
    /\ emitPoints' = IF cfg.params.debugEmit THEN emitPoints + EmitCount(cfg, 1, 1)
                     ELSE emitPoints
    /\ pc' = "combine"
    /\ UNCHANGED <<cfg, calls, xs, output, smoothed, overlay, hot, finalSmooth,
                   result, firstResult>>
    /\ UNCHANGED auxVars

\* base energy + band energy, back to dB
CombineFields ==
    /\ pc = "combine"
    /\ overlay' = Combine(smoothed, energyGrid)
    /\ pc' = "hot"
    /\ UNCHANGED <<cfg, emitPoints, calls, xs, output, smoothed, bandsOf, energyGrid,
                   hot, finalSmooth, result, firstResult>>
    /\ UNCHANGED auxVars

\* hot-spot pass: running maximum of the segment contributions per cell
HotSpotPass ==
    /\ pc = "hot"
    /\ hot' = HotTrace(cfg, xs)
    /\ overlay' = HotSpot(cfg, xs, overlay)
    /\ pc' = "blend"
    /\ UNCHANGED <<cfg, emitPoints, calls, xs, output, smoothed, bandsOf, energyGrid,
                   finalSmooth, result, firstResult>>
    /\ UNCHANGED auxVars

\* overlay smoothing, blending with the base field by the perimeter mask, cap,
\* min/max, conversion to null, return
Finish ==
    /\ pc = "blend"
    /\ LET blended == Blend(cfg, xs, SmoothOverlay(cfg, overlay), smoothed)
           ret == Returned(cfg, xs, blended)
       IN /\ finalSmooth' = Cap(cfg, blended)
          /\ result' = ret
          /\ firstResult' = IF calls = 0 THEN ret ELSE firstResult
    /\ calls' = calls + 1
    /\ pc' = "idle"
    /\ UNCHANGED <<cfg, emitPoints, xs, output, smoothed, bandsOf, energyGrid,
                   overlay, hot>>
    /\ UNCHANGED auxVars

\* the host samples the facades of the configuration: the map it passes is
\* normalised in place, the sources are returned
GenerateSources ==
    /\ pc = "idle"
    /\ calls = MaxCalls
    /\ sources = NoSources
    /\ SamplingEnds(cfg.poly, cfg.main, SourceSpacingOf(cfg.params))
    /\ sources' = generateSources(cfg.poly, cfg.main, SourceSpacingOf(cfg.params),
                                  OutwardOffset, lwMap)
    /\ lwMap' = IF Len(cfg.poly) = 0 /\ Len(cfg.main) = 0 THEN lwMap ELSE NormalizedLw(lwMap)
    /\ UNCHANGED hostVars
    /\ UNCHANGED <<cfg, emitPoints, pc, calls, xs, output, smoothed, bandsOf, energyGrid,
                   overlay, hot, finalSmooth, result, firstResult, loopSources, fnVars>>

\* the host samples the perimeter with the WaveEmitter of ControlsPanel.tsx
GenerateLoopSources ==
    /\ pc = "idle"
    /\ calls = MaxCalls
    /\ loopSources = NoSources
    /\ SamplingEnds(cfg.poly, << >>, SourceSpacingOf(cfg.params))
    /\ loopSources' = generateSourcesOnLoop(cfg.poly, cfg.main, SourceSpacingOf(cfg.params),
                                            OutwardOffset, lwMap)
    /\ UNCHANGED hostVars
    /\ UNCHANGED <<cfg, emitPoints, pc, calls, xs, output, smoothed, bandsOf, energyGrid,
                   overlay, hot, finalSmooth, result, firstResult, lwMap, sources, fnVars>>

Next ==
    \/ GenerateSources
    \/ GenerateLoopSources
    \/ BuildGrid
    \/ ComputeBase
    \/ SmoothBaseField
    \/ AccumulateBands
    \/ CombineFields
    \/ HotSpotPass
    \/ Finish

Spec == Init /\ [][Next]_vars

(***************************************************************************)
(* compute() on a single straight facade of 10 m at 80 dB, without         *)
(* perimeter and without smoothing, on a grid of 1 m cells                  *)
(***************************************************************************)

\* the facade through the origin along x or along z, in either direction
FalloffEnds ==
    {<< <<-500, 0>>, <<500, 0>> >>, << <<500, 0>>, <<-500, 0>> >>,
     << <<0, -500>>, <<0, 500>> >>, << <<0, 500>>, <<0, -500>> >>}

\* sourceSpacing absent (0) or 2.5 m
FalloffSpacings == {0, 250}

FalloffCfgs ==
    {[areaSize |-> 1600, resolution |-> 5, poly |-> NoPoly,
      main |-> <<[name |-> 0, p1 |-> e[1], p2 |-> e[2]]>>,
      Lw |-> [k \in {0} |-> 80 * DB],
      params |-> [cellSize |-> 100, preSmoothSize |-> 0, overlaySmoothSize |-> 0,
                  sourceSpacing |-> sp, redSampleSpacing |-> 100,
                  debugEmit |-> FALSE, Lp_in_map |-> [k \in {} |-> 0]]] :
        e \in FalloffEnds, sp \in FalloffSpacings}

InitFalloff ==
    /\ \E c \in FalloffCfgs : NothingComputed(c)
    /\ NoFacadeCall
    /\ NoColorCall
    /\ NoHostCall

SpecFalloff == InitFalloff /\ [][Next]_vars

(***************************************************************************)
(* computeFacadeRePrime called on its own on a list of facade elements      *)
(***************************************************************************)

\* areas in cm^2 (-1, 0, 1 and 4 m^2) and transmission losses of an element
ElementAreas == {-10000, 0, 10000, 40000}
ElementRs == {NaN, PosInf, 20 * DB, 45 * DB}
Elements == [area : ElementAreas, R : ElementRs]
ElementLists == {<< >>} \cup {<<e>> : e \in Elements} \cup {<<e, f>> : e, f \in Elements}

\* `if (S <= 0 || !Number.isFinite(R)) continue`
Counted(el) == el.area > 0 /\ IsFinite(el.R)

\* computeFacadeRePrime of GradientFactory.ts without totalArea: NaN without a
\* counted element, else -10*log10(weighted / Ssum) over the counted ones
GradientFactory_computeFacadeRePrime(els) ==
    IF Len(els) = 0 \/ Len(SelectSeq(els, Counted)) = 0 THEN NaN
    ELSE -(WeightedSum(SelectSeq(els, Counted), 1)
           - (Log10Milli(AreaSum(SelectSeq(els, Counted), 1)) - 4000))

InitFacade ==
    /\ NothingComputed(EmptyCfg)
    /\ NoHostCall
    /\ facadeElements \in ElementLists
    /\ rePrimeISO = Null
    /\ rePrimeGF = Null
    /\ NoColorCall

\* ISOModel.computeFacadeRePrime(elements), as compute() calls it
CallISOModelRePrime ==
    /\ rePrimeISO = Null
    /\ rePrimeISO' = computeFacadeRePrime(facadeElements)
    /\ UNCHANGED hostVars
    /\ UNCHANGED <<cfg, emitPoints, pc, calls, xs, output, smoothed, bandsOf, energyGrid,
                   overlay, hot, finalSmooth, result, firstResult, lwMap, sources,
                   loopSources, facadeElements, rePrimeGF, zmin, zmax, thresholds,
                   builder, colorscale>>

\* computeFacadeRePrime(elements) of GradientFactory.ts
CallGradientFactoryRePrime ==
    /\ rePrimeGF = Null
    /\ rePrimeGF' = GradientFactory_computeFacadeRePrime(facadeElements)
    /\ UNCHANGED hostVars
    /\ UNCHANGED <<cfg, emitPoints, pc, calls, xs, output, smoothed, bandsOf, energyGrid,
                   overlay, hot, finalSmooth, result, firstResult, lwMap, sources,
                   loopSources, facadeElements, rePrimeISO, zmin, zmax, thresholds,
                   builder, colorscale>>

NextFacade ==
    \/ CallISOModelRePrime
    \/ CallGradientFactoryRePrime

SpecFacade == InitFacade /\ [][NextFacade]_vars

(***************************************************************************)
(* buildThresholdColorscale called on its own                               *)
(***************************************************************************)

\* data ranges (centi-decibels) and threshold objects a caller passes
RangeValues == {NaN, 0, 40 * DB, 90 * DB}
ThresholdSets ==
    {NoThresholds}
    \cup [present : {TRUE}, red : {Null, NaN, 30 * DB, 70 * DB},
          yellow : {Null, 50 * DB, 80 * DB}, green : {Null, 45 * DB}, blue : {Null, 20 * DB}]

InitColor ==
    /\ NothingComputed(EmptyCfg)
    /\ NoFacadeCall
    /\ zmin \in RangeValues
    /\ zmax \in RangeValues
    /\ thresholds \in ThresholdSets
    /\ builder = "none"
    /\ colorscale = << >>
    /\ NoHostCall

\* buildThresholdColorscale(zmin, zmax, thresholds) of part_001
BuildScale ==
    /\ builder = "none"
    /\ builder' = "part_001"
    /\ colorscale' = buildThresholdColorscale(zmin, zmax, thresholds)
    /\ UNCHANGED hostVars
    /\ UNCHANGED <<cfg, emitPoints, pc, calls, xs, output, smoothed, bandsOf, energyGrid,
                   overlay, hot, finalSmooth, result, firstResult, lwMap, sources,
                   loopSources, facadeElements, rePrimeISO, rePrimeGF, zmin, zmax,
                   thresholds>>

\* the same call on the builder of useSyncSegments.ts
BuildScaleSync ==
    /\ builder = "none"
    /\ builder' = "useSyncSegments"
    /\ colorscale' = useSyncSegments_buildThresholdColorscale(zmin, zmax, thresholds)
    /\ UNCHANGED hostVars
    /\ UNCHANGED <<cfg, emitPoints, pc, calls, xs, output, smoothed, bandsOf, energyGrid,
                   overlay, hot, finalSmooth, result, firstResult, lwMap, sources,
                   loopSources, facadeElements, rePrimeISO, rePrimeGF, zmin, zmax,
                   thresholds>>

\* the same call on the builder of ColorMap.ts, as usePlotlyTexture does
BuildScaleColorMap ==
    /\ builder = "none"
    /\ builder' = "ColorMap"
    /\ colorscale' = ColorMap_buildThresholdColorscale(zmin, zmax, thresholds)
    /\ UNCHANGED hostVars
    /\ UNCHANGED <<cfg, emitPoints, pc, calls, xs, output, smoothed, bandsOf, energyGrid,
                   overlay, hot, finalSmooth, result, firstResult, lwMap, sources,
                   loopSources, facadeElements, rePrimeISO, rePrimeGF, zmin, zmax,
                   thresholds>>

NextColor ==
    \/ BuildScale
    \/ BuildScaleSync
    \/ BuildScaleColorMap

SpecColor == InitColor /\ [][NextColor]_vars

(***************************************************************************)
(* WaveEmitter.generateSources of part_003, statement by statement: the    *)
(* loop over the segments and, inside it, the loop that pushes the samples *)
(***************************************************************************)

\* sIdx is counted up to MaxSamples, which stands for every larger index; each
\* finite sample count of the inputs is below it
MaxSamples == 3

\* the sampleSpacing arguments: omitted, 0, -1 m and 3 m
SpacingArgs == {Null, 0, -100, 300}

\* the parameter sampleSpacing = 0: an omitted argument takes the default
SampleSpacingOf(arg) == IF arg = Null THEN 0 ELSE arg

\* samples of the segment the loop is at
SamplesHere ==
    Samples(LenEdge(SampledSegments(cfg.poly, cfg.main)[segK]), SampleSpacingOf(spacingArg))

InitSampler ==
    /\ \E c \in Configs : NothingComputed(c)
    /\ NoFacadeCall
    /\ NoColorCall
    /\ NoGridCall
    /\ NoReactCall
    /\ NoRedCall
    /\ spacingArg \in SpacingArgs
    /\ samplerPc = "idle"
    /\ segK = 0
    /\ sIdx = 0
    /\ pushed = << >>

\* the call: early return without perimeter and segments, else the map is
\* normalised in place and the segment loop is entered
EnterGenerateSources ==
    /\ samplerPc = "idle"
    /\ IF Len(cfg.poly) = 0 /\ Len(cfg.main) = 0
       THEN samplerPc' = "returned" /\ lwMap' = lwMap
       ELSE samplerPc' = "loop" /\ lwMap' = NormalizedLw(lwMap)
    /\ segK' = 1
    /\ sIdx' = 0
    /\ pushed' = << >>
    /\ UNCHANGED <<computeVars, reactVars, gridVars, redVars, sources, loopSources, fnVars, spacingArg>>

\* one turn of `for (sIdx = 0; sIdx < samples; sIdx++)`
PushSample ==
    /\ samplerPc = "loop"
    /\ segK <= Len(SampledSegments(cfg.poly, cfg.main))
    /\ sIdx < SamplesHere
    /\ IF sIdx < MaxSamples
       THEN /\ pushed' = Append(pushed, [seg |-> segK, sIdx |-> sIdx])
            /\ sIdx' = sIdx + 1
       ELSE UNCHANGED <<pushed, sIdx>>
    /\ UNCHANGED <<computeVars, reactVars, gridVars, redVars, lwMap, sources, loopSources, fnVars, spacingArg, samplerPc, segK>>

\* the sample loop of segment k ends: k++
NextSegment ==
    /\ samplerPc = "loop"
    /\ segK <= Len(SampledSegments(cfg.poly, cfg.main))
    /\ ~(sIdx < SamplesHere)
    /\ segK' = segK + 1
    /\ sIdx' = 0
    /\ UNCHANGED <<computeVars, reactVars, gridVars, redVars, lwMap, sources, loopSources, fnVars, spacingArg, samplerPc, pushed>>

\* `return sources`
ReturnSources ==
    /\ samplerPc = "loop"
    /\ segK > Len(SampledSegments(cfg.poly, cfg.main))
    /\ samplerPc' = "returned"
    /\ UNCHANGED <<computeVars, reactVars, gridVars, redVars, lwMap, sources, loopSources, fnVars, spacingArg, segK, sIdx, pushed>>

NextSampler ==
    \/ EnterGenerateSources
    \/ PushSample
    \/ NextSegment
    \/ ReturnSources

\* the function runs to completion once called: no other code is interleaved
SpecSampler == InitSampler /\ [][NextSampler]_vars /\ WF_vars(NextSampler)

(***************************************************************************)
(* ISOModel.computeLpFromSource and computeGridLpFromSources               *)
(***************************************************************************)

\* dbPerMeter default 0.5 dB/m and maxDist default 50 m; Df_room default 6 dB
DefaultDbPerMeter == 50
DefaultMaxDist == 5000
DfRoomDefault == 600

\* the grid axes (xs = ys), the sources and the options of the calls
GridXs == <<-400, 0, 400>>
GridSourceSet ==
    {[x |-> x, z |-> 0, Lw |-> lw, hasNormal |-> hn, nx |-> 1000, nz |-> 0] :
        x \in {0, 300}, lw \in {NaN, 0, 8000}, hn \in BOOLEAN}
GridSourceLists ==
    {<< >>} \cup {<<s>> : s \in GridSourceSet}
    \cup {<<s, r>> : s \in GridSourceSet, r \in {q \in GridSourceSet : q.x = 300}}
GridOptionSets ==
    {[given |-> FALSE, dbPerMeter |-> Null, maxDist |-> Null]}
    \cup {[given |-> TRUE, dbPerMeter |-> d, maxDist |-> m] :
              d \in {Null, NaN, 100}, m \in {Null, 350}}

\* `Number.isFinite(options?.dbPerMeter ?? 0.5) ? options!.dbPerMeter : 0.5`:
\* reading dbPerMeter of an options object that is undefined throws
OuterDbPerMeter(options) ==
    LET probed == IF ~options.given \/ options.dbPerMeter = Null
                  THEN DefaultDbPerMeter ELSE options.dbPerMeter
    IN IF IsFinite(probed)
       THEN [threw |-> ~options.given, v |-> options.dbPerMeter]
       ELSE [threw |-> FALSE, v |-> DefaultDbPerMeter]

\* 10 * log10 of the directivity weight max(1e-4, clamp(dot)^1) of a source
\* towards (vx, vz); 0 dB for a source without normal
DirectivityDb(s, vx, vz) ==
    IF ~s.hasNormal THEN 0
    ELSE LET nlen == IF Hypot(s.nx, s.nz) = 0 THEN 1 ELSE Hypot(s.nx, s.nz)
             rlen == IF Hypot(vx, vz) = 0 THEN 1 ELSE Hypot(vx, vz)
             dot == Max2(0, Min2(W, RoundDiv((s.nx * vx + s.nz * vz) * W, nlen * rlen)))
         IN IF dot = 0 THEN -40 * DB ELSE Max2(-40 * DB, Log10Milli(dot) - 3000)

\* computeLpFromSource(...).energyLinear, as a level; dbPerMeterOpt is
\* opts.dbPerMeter, taken when it is a finite number
computeLpFromSource(s, rx, rz, dbPerMeterOpt) ==
    LET dbPerMeter == IF IsFinite(dbPerMeterOpt) THEN dbPerMeterOpt ELSE DefaultDbPerMeter
        dist == Hypot(rx - s.x, rz - s.z)
        lp_base == computeLpOutAtPoint(s.Lw, 0, DfRoomDefault, 0, Max2(1, dist))
        lp_after_atm == Sub(lp_base, (dbPerMeter * dist) \div U)
    IN IF ~IsFinite(lp_after_atm) THEN NaN
       ELSE PowTen(lp_after_atm + DirectivityDb(s, rx - s.x, rz - s.z))

RECURSIVE TotalE(_, _, _, _, _, _)
\* totalE of one cell over the sources k..
TotalE(srcs, k, rx, rz, maxDist, dbPerMeterOpt) ==
    IF k > Len(srcs) THEN ZeroE
    ELSE LET e == computeLpFromSource(srcs[k], rx, rz, dbPerMeterOpt)
             rest == TotalE(srcs, k + 1, rx, rz, maxDist, dbPerMeterOpt)
         IN IF Hypot(rx - srcs[k].x, rz - srcs[k].z) > maxDist THEN rest
            ELSE IF ~IsFinite(e) \/ e = ZeroE THEN rest
            ELSE LinAdd(e, rest)

\* options?.maxDist ?? 50
MaxDistOf(options) == IF options.maxDist = Null THEN DefaultMaxDist ELSE options.maxDist

\* the matrix computeGridLpFromSources fills: -Infinity without contribution
GridLp(srcs, axis, maxDist, dbPerMeterOpt) ==
    Matrix(Len(axis), LAMBDA j, i :
        LET totalE == TotalE(srcs, 1, axis[i], axis[j], maxDist, dbPerMeterOpt)
        IN IF totalE = ZeroE THEN NegInf ELSE totalE)

\* computeGridLpFromSources(sources, xs, ys, options)
computeGridLpFromSources(srcs, axis, options) ==
    IF OuterDbPerMeter(options).threw THEN [state |-> "threw", out |-> << >>]
    ELSE [state |-> "returned",
          out |-> GridLp(srcs, axis, MaxDistOf(options), OuterDbPerMeter(options).v)]

InitGrid ==
    /\ NothingComputed(EmptyCfg)
    /\ NoFacadeCall
    /\ NoColorCall
    /\ NoSamplerCall
    /\ NoReactCall
    /\ NoRedCall
    /\ gridSources \in GridSourceLists
    /\ gridOptions \in GridOptionSets
    /\ gridOut = [state |-> "none", out |-> << >>]

CallComputeGridLp ==
    /\ gridOut.state = "none"
    /\ gridOut' = computeGridLpFromSources(gridSources, GridXs, gridOptions)
    /\ UNCHANGED <<computeVars, reactVars, lwMap, sources, loopSources, fnVars, samplerVars,
                   redVars, gridSources, gridOptions>>

NextGrid == CallComputeGridLp

SpecGrid == InitGrid /\ [][NextGrid]_vars

(***************************************************************************)
(* generateRedHeatmapFromFacade of part_001 and the helpers it calls       *)
(***************************************************************************)

\* getPerpAlong(px, pz, a, b).perp in centimetres: signed offset from the
\* clamped projection along the nominal normal (-tz, tx)
getPerpAlong(px, pz, a, b) ==
    LET f == SegFrame([p1 |-> a, p2 |-> b])
        tRaw == RoundDiv((px - a[1]) * f.tx + (pz - a[2]) * f.tz, W)
        clamped == Max2(0, Min2(f.segLen, tRaw))
        projX == a[1] + RoundDiv(f.tx * clamped, W)
        projZ == a[2] + RoundDiv(f.tz * clamped, W)
    IN IF f.segLen = 0 THEN NegInf
       ELSE RoundDiv((px - projX) * f.nx + (pz - projZ) * f.nz, W)

\* bestPerp: the greatest perp over the segments, -Infinity without any
BestPerp(segs, px, pz) ==
    LET ps == {getPerpAlong(px, pz, segs[k].p1, segs[k].p2) : k \in 1..Len(segs)} \ {NegInf}
    IN IF ps = {} THEN NegInf ELSE SetMax(ps)

\* isCellInsidePoly: one of the four cell corners is inside the polygon
isCellInsidePoly(cx, cz, halfX, halfZ, poly) ==
    \E dx \in {-halfX, halfX}, dz \in {-halfZ, halfZ} :
        pointInPolygon(cx + dx, cz + dz, poly)

\* cellHalfX = cellHalfY: half the grid step, 0.5 m on a grid of one sample
CellHalf(axis) == IF Len(axis) > 1 THEN Abs(axis[2] - axis[1]) \div 2 ELSE 50

\* options?.redMaxDist ?? 2.0, yellowMaxDist ?? max(12, redMaxDist * 8),
\* outwardOffset ?? 0.02
RedMaxDistDefault == 200
YellowMaxDistDefault == 1600
RedOutwardOffset == 2

\* the sources of WaveEmitter.generateSources as SourceSimple, in centimetres
AsSourceSimple(srcs) ==
    [k \in 1..Len(srcs) |->
        [x |-> RoundDiv(srcs[k].x, srcs[k].den), z |-> RoundDiv(srcs[k].z, srcs[k].den),
         Lw |-> srcs[k].Lw, hasNormal |-> TRUE, nx |-> srcs[k].nx, nz |-> srcs[k].nz]]

\* redLinear / yellowLinear of one cell: 0 inside the perimeter mask, 0 where
\* no facade faces the cell or beyond the perpendicular cap
CappedLinear(db, axis, segs, perimeter, maxDist) ==
    Matrix(Len(axis), LAMBDA j, i :
        LET bestPerp == BestPerp(segs, axis[i], axis[j])
        IN IF isCellInsidePoly(axis[i], axis[j], CellHalf(axis), CellHalf(axis), perimeter)
           THEN ZeroE
           ELSE IF bestPerp = NegInf \/ ~(bestPerp > 0) THEN ZeroE
           ELSE IF bestPerp <= maxDist /\ db[j][i] # NegInf THEN PowTen(db[j][i])
           ELSE ZeroE)

\* 10 * log10 of the kernel tap exp(-k^2 / (2 sigma^2)), sigma = radius / 2
BlurTapDb(k, radius) == ExpDb((2000 * k * k) \div (radius * radius))

RECURSIVE BlurTapSum(_, _, _)
\* the sum of the taps k..r, as a level
BlurTapSum(k, r, radius) ==
    IF k > r THEN ZeroE ELSE LinAdd(BlurTapDb(k, radius), BlurTapSum(k + 1, r, radius))

RECURSIVE BlurAcc(_, _, _, _)
\* acc over the taps k..radius of one line at pos, indices clamped to the line
BlurAcc(line, pos, k, radius) ==
    IF k > radius THEN ZeroE
    ELSE LET v == line[Max2(1, Min2(Len(line), pos + k))]
             rest == BlurAcc(line, pos, k + 1, radius)
         IN IF v = ZeroE THEN rest
            ELSE LinAdd(v + BlurTapDb(k, radius) - BlurTapSum(-radius, radius, radius), rest)

\* gaussianBlurMatrix, horizontal pass: temp[y][x]
BlurRows(src, radius) ==
    [y \in 1..Len(src) |-> [x \in 1..Len(src) |-> BlurAcc(src[y], x, -radius, radius)]]

\* gaussianBlurMatrix, vertical pass: out[y][x]
BlurCols(temp, radius) ==
    [y \in 1..Len(temp) |->
        [x \in 1..Len(temp) |->
            BlurAcc([sy \in 1..Len(temp) |-> temp[sy][x]], y, -radius, radius)]]

\* `if (applyYellowBlur && applyYellowBlur > 0)` and the `radius <= 0` and
\* empty-matrix returns of gaussianBlurMatrix
Blurs(src, radius) == radius > 0 /\ Len(src) > 0

\* out[j][i]: NaN where the combined energy is 0
CombinedDb(redLinear, yellowLinear) ==
    Matrix(Len(redLinear), LAMBDA j, i :
        LET combinedE == LinAdd(redLinear[j][i], yellowLinear[j][i])
        IN IF combinedE = ZeroE THEN NaN ELSE combinedE)

\* applyYellowBlur of the calls: no blur, or a radius of 1 or 2 cells
YellowBlurs == {0, 1, 2}

\* the perimeters and Lw maps of the calls
RedCfgs ==
    {c \in Configs : c.params.cellSize = 200 /\ IsFinite(c.areaSize)}

InitRed ==
    /\ \E c \in RedCfgs : NothingComputed(c)
    /\ NoFacadeCall
    /\ NoColorCall
    /\ NoSamplerCall
    /\ NoReactCall
    /\ NoGridCall
    /\ yellowBlur \in YellowBlurs
    /\ redPc = "idle"
    /\ redDb = << >>
    /\ yellowDb = << >>
    /\ redOut = << >>

\* the sources are sampled and the two dB maps computed
RedGrids ==
    /\ redPc = "idle"
    /\ LET srcs == AsSourceSimple(generateSources(cfg.poly, cfg.main,
                                                  SourceSpacingOf(cfg.params),
                                                  RedOutwardOffset, cfg.Lw))
       IN /\ redDb' = GridLp(srcs, GridAxis(cfg), RedMaxDistDefault, DefaultDbPerMeter)
          /\ yellowDb' = GridLp(srcs, GridAxis(cfg), YellowMaxDistDefault, DefaultDbPerMeter)
    /\ redPc' = "mask"
    /\ UNCHANGED <<computeVars, reactVars, lwMap, sources, loopSources, fnVars, samplerVars,
                   gridVars, yellowBlur, redOut>>

\* redLinear and yellowLinear: perimeter mask and perpendicular caps
RedMask ==
    /\ redPc = "mask"
    /\ redDb' = CappedLinear(redDb, GridAxis(cfg), cfg.main, cfg.poly, RedMaxDistDefault)
    /\ yellowDb' = CappedLinear(yellowDb, GridAxis(cfg), cfg.main, cfg.poly,
                                YellowMaxDistDefault)
    /\ redPc' = IF Blurs(yellowDb, yellowBlur) THEN "rows" ELSE "combine"
    /\ UNCHANGED <<computeVars, reactVars, lwMap, sources, loopSources, fnVars, samplerVars,
                   gridVars, yellowBlur, redOut>>

\* gaussianBlurMatrix(yellowLinear, applyYellowBlur), horizontal pass
RedBlurRows ==
    /\ redPc = "rows"
    /\ yellowDb' = BlurRows(yellowDb, yellowBlur)
    /\ redPc' = "cols"
    /\ UNCHANGED <<computeVars, reactVars, lwMap, sources, loopSources, fnVars, samplerVars,
                   gridVars, yellowBlur, redDb, redOut>>

\* ... and vertical pass
RedBlurCols ==
    /\ redPc = "cols"
    /\ yellowDb' = BlurCols(yellowDb, yellowBlur)
    /\ redPc' = "combine"
    /\ UNCHANGED <<computeVars, reactVars, lwMap, sources, loopSources, fnVars, samplerVars,
                   gridVars, yellowBlur, redDb, redOut>>

\* red and yellow are combined and the matrix is returned
RedCombine ==
    /\ redPc = "combine"
    /\ redOut' = CombinedDb(redDb, yellowDb)
    /\ redPc' = "returned"
    /\ UNCHANGED <<computeVars, reactVars, lwMap, sources, loopSources, fnVars, samplerVars,
                   gridVars, yellowBlur, redDb, yellowDb>>

NextRed ==
    \/ RedGrids
    \/ RedMask
    \/ RedBlurRows
    \/ RedBlurCols
    \/ RedCombine

SpecRed == InitRed /\ [][NextRed]_vars

\* ---------------------------------------------------------------------------
\* The Home component of part_004, the buttons of ControlsPanel and the hook
\* useSyncSegments.  A user action changes the state; Render commits the new
\* state and schedules the effects whose dependencies changed; the effects run
\* before the next user action.
\* ---------------------------------------------------------------------------

\* the most re-initialisations counted after one user action
MaxReinits == 2

\* defaultLw of getBuildingConfig
DefaultLw == 30 * DB

\* defaultVal of the effect on [finalLoop]
LoopDefaultVal == 30 * DB

\* the value useSyncSegments gives entry 0
SyncFirstLw == 100 * DB

\* FOUR_PI_CONST + dbPerMeter * 1.0 of ControlsPanel, with params.dbPerMeter absent
LpToLwOffset == 1149

\* the level a slider or the JSON file carries
UserLevel == 65 * DB

\* the type strings handed to changeBuildingType
ShapeTypes == {"L", "U", "S", "T", "X", "constructor"}

\* Array.from({ length: n }, (_, i) => ({ value: i === 0 ? first : rest }))
Filled(n, first, rest) == [i \in 1..n |-> IF i = 1 THEN first ELSE rest]

\* segmentCounts[type] ?? 6 of getBuildingConfig
ConfigSegmentCount(type) ==
    CASE type = "L" -> 6
      [] type = "U" -> 8
      [] type = "S" -> 4
      [] OTHER -> 6

\* getBuildingConfig(type): the fields of it the components read; no shapeType
getBuildingConfig(type) ==
    [shapeType |-> "undefined",
     LwBySegment |-> Filled(ConfigSegmentCount(type), DefaultLw, DefaultLw)]

\* shapeSegCountMap[type]: an own entry, a member inherited from
\* Object.prototype (a function), or undefined
shapeSegCountMap(type) ==
    CASE type = "L" -> [kind |-> "number", n |-> 6]
      [] type = "U" -> [kind |-> "number", n |-> 8]
      [] type = "S" -> [kind |-> "number", n |-> 4]
      [] type = "HEX" -> [kind |-> "number", n |-> 6]
      [] type = "T" -> [kind |-> "number", n |-> 8]
      [] type = "CROSS" -> [kind |-> "number", n |-> 12]
      [] type = "POLY" -> [kind |-> "number", n |-> 8]
      [] type = "constructor" -> [kind |-> "function", n |-> 0]
      [] OTHER -> [kind |-> "undefined", n |-> 0]

\* v ?? d
Coalesce(v, d) == IF v.kind = "undefined" THEN [kind |-> "number", n |-> d] ELSE v

\* the length Array.from gives for { length: v }: a function converts to NaN, then 0
ArrayLength(v) == IF v.kind = "number" THEN v.n ELSE 0

\* a shapeType that is a non-empty string
Truthy(shapeType) == shapeType # "undefined"

\* finalLoop.length for config.shapeType: the U mesh has 8 points, the square 4,
\* every other type the L mesh
FinalLoopLength(shapeType) ==
    CASE shapeType = "U" -> 8
      [] shapeType = "S" -> 4
      [] OTHER -> lLoop

\* newArr of the effect on [finalLoop]
Resized(cur, n) == [i \in 1..n |-> IF i <= Len(cur) THEN cur[i] ELSE LoopDefaultVal]

\* the JSON files the Load button may fetch
JsonFiles ==
    {[ok |-> FALSE, isArray |-> FALSE, mode |-> "lw", segments |-> << >>],
     [ok |-> TRUE, isArray |-> FALSE, mode |-> "lw", segments |-> << >>],
     [ok |-> TRUE, isArray |-> TRUE, mode |-> "lw", segments |-> <<UserLevel>>],
     [ok |-> TRUE, isArray |-> TRUE, mode |-> "lp",
      segments |-> <<UserLevel, UserLevel, UserLevel, UserLevel, UserLevel>>]}

\* segs of the Load button: converted, padded to 4, then slice(0, 4)
LoadedSegments(file) ==
    [i \in 1..4 |->
        IF i <= Len(file.segments)
        THEN IF file.mode = "lp" THEN file.segments[i] + LpToLwOffset ELSE file.segments[i]
        ELSE 0]

\* every effect has run and no state change waits for a render
Quiescent ==
    /\ ~loopPending
    /\ ~syncPending
    /\ ~buildingChanged
    /\ shapeTypeOfConfig = committed.shapeType

\* the variables of the computation and of the other host code
notUiVars == <<computeVars, lwMap, sources, loopSources, fnVars, samplerVars, gridVars,
               redVars, texVars>>

InitUi ==
    /\ NothingComputed(CHOOSE c \in RedCfgs : TRUE)
    /\ NoFacadeCall
    /\ NoColorCall
    /\ NoSamplerCall
    /\ NoGridCall
    /\ NoRedCall
    /\ NoTextureCall
    /\ building = getBuildingConfig("L")
    /\ shapeTypeOfConfig = "undefined"
    /\ committed = [building |-> getBuildingConfig("L"), shapeType |-> "undefined"]
    /\ buildingChanged = FALSE
    /\ loopPending = TRUE
    /\ syncMounted \in BOOLEAN
    /\ syncPending = syncMounted
    /\ lLoop \in {4, 6}
    /\ installed = [state |-> "none", arr |-> << >>]
    /\ reinits = 0

\* React renders the component with the new state and schedules the effects
\* whose dependencies changed
Render ==
    /\ ~loopPending
    /\ ~syncPending
    /\ buildingChanged \/ shapeTypeOfConfig # committed.shapeType
    /\ committed' = [building |-> building, shapeType |-> shapeTypeOfConfig]
    /\ loopPending' = (shapeTypeOfConfig # committed.shapeType)
    /\ syncPending' = (syncMounted /\ buildingChanged)
    /\ buildingChanged' = FALSE
    /\ UNCHANGED <<notUiVars, building, shapeTypeOfConfig, syncMounted, lLoop, installed, reinits>>

\* the effect of Home on [finalLoop]
RunLoopEffect ==
    /\ loopPending
    /\ LET n == FinalLoopLength(committed.shapeType)
           cur == building.LwBySegment
       IN  IF n = 0 \/ Len(cur) = n
           THEN UNCHANGED <<building, buildingChanged>>
           ELSE /\ building' = [building EXCEPT !.LwBySegment = Resized(cur, n)]
                /\ buildingChanged' = TRUE
    /\ loopPending' = FALSE
    /\ UNCHANGED <<notUiVars, shapeTypeOfConfig, committed, syncPending, syncMounted, lLoop,
                   installed, reinits>>

\* the effect of useSyncSegments on [building, setBuilding, setConfig]; every
\* entry of the model holds a number, so the typeof test never asks for an init
RunSyncEffect ==
    /\ syncPending
    /\ LET seen == committed.building
           shapeType == IF seen.shapeType = "undefined" THEN "S" ELSE seen.shapeType
           segCount == Coalesce(shapeSegCountMap(shapeType), 4)
           existing == seen.LwBySegment
           needInit == ~(segCount.kind = "number" /\ Len(existing) = segCount.n)
           arr == Filled(ArrayLength(segCount), SyncFirstLw, 0)
       IN  IF needInit
           THEN /\ building' = [shapeType |-> IF Truthy(building.shapeType)
                                              THEN building.shapeType ELSE shapeType,
                                LwBySegment |-> arr]
                /\ buildingChanged' = TRUE
                /\ shapeTypeOfConfig' = IF Truthy(seen.shapeType) THEN seen.shapeType
                                        ELSE shapeType
                /\ reinits' = IF reinits < MaxReinits THEN reinits + 1 ELSE reinits
           ELSE UNCHANGED <<building, buildingChanged, shapeTypeOfConfig, reinits>>
    /\ syncPending' = FALSE
    /\ UNCHANGED <<notUiVars, committed, loopPending, syncMounted, lLoop, installed>>

\* onChange of the slider of segment idx
SliderEdit ==
    /\ Quiescent
    /\ \E idx \in {1, Len(building.LwBySegment)} :
        /\ idx >= 1
        /\ building' = [building EXCEPT !.LwBySegment[idx] = UserLevel]
    /\ buildingChanged' = TRUE
    /\ installed' = [state |-> "none", arr |-> << >>]
    /\ reinits' = 0
    /\ UNCHANGED <<notUiVars, shapeTypeOfConfig, committed, loopPending, syncPending,
                   syncMounted, lLoop>>

\* onClick of the Reset button
ResetBuilding ==
    /\ Quiescent
    /\ building' = getBuildingConfig("L")
    /\ buildingChanged' = TRUE
    /\ installed' = [state |-> "none", arr |-> << >>]
    /\ reinits' = 0
    /\ UNCHANGED <<notUiVars, shapeTypeOfConfig, committed, loopPending, syncPending,
                   syncMounted, lLoop>>

\* onClick of the Load JSON button, at the point its fetch has resolved
LoadJson ==
    /\ Quiescent
    /\ \E file \in JsonFiles :
        IF file.ok /\ file.isArray
        THEN /\ building' = [building EXCEPT !.LwBySegment = LoadedSegments(file)]
             /\ buildingChanged' = TRUE
        ELSE UNCHANGED <<building, buildingChanged>>
    /\ installed' = [state |-> "none", arr |-> << >>]
    /\ reinits' = 0
    /\ UNCHANGED <<notUiVars, shapeTypeOfConfig, committed, loopPending, syncPending,
                   syncMounted, lLoop>>

\* changeBuildingType(type) of useSyncSegments
changeBuildingType ==
    /\ Quiescent
    /\ syncMounted
    /\ \E type \in ShapeTypes :
        LET segCount == Coalesce(shapeSegCountMap(type), 6)
            arr == Filled(ArrayLength(segCount), SyncFirstLw, 0)
        IN  /\ building' = [shapeType |-> type, LwBySegment |-> arr]
            /\ shapeTypeOfConfig' = type
            /\ installed' = [state |-> "set", arr |-> arr]
    /\ buildingChanged' = TRUE
    /\ reinits' = 0
    /\ UNCHANGED <<notUiVars, committed, loopPending, syncPending, syncMounted, lLoop>>

NextUi ==
    \/ Render
    \/ RunLoopEffect
    \/ RunSyncEffect
    \/ SliderEdit
    \/ ResetBuilding
    \/ LoadJson
    \/ changeBuildingType

SpecUi == InitUi /\ [][NextUi]_vars

\* ---------------------------------------------------------------------------
\* usePlotlyTexture: every run of the effect is an asynchronous render that
\* advances one await at a time, interleaved with the cleanup the next change
\* of [heatmap, params, building] or the unmount runs.
\* ---------------------------------------------------------------------------

\* the most runs of the effect followed
MaxRenders == 3

\* the positions at which a render has ended
EndedAt == {"done", "aborted", "failed"}

\* the variables of everything but usePlotlyTexture
notTexVars == <<computeVars, lwMap, sources, loopSources, fnVars, samplerVars, gridVars,
                redVars, uiVars>>

\* the body of the effect up to the start of the async block: the run's own
\* mounted flag, the container it finds or creates, the texture its cleanup holds
StartedRun(k, ref, tex) ==
    [inputs |-> k, pos |-> "import", mounted |-> TRUE,
     container |-> IF ref = 0 THEN k ELSE ref, captured |-> tex]

InitTexture ==
    /\ NothingComputed(CHOOSE c \in RedCfgs : TRUE)
    /\ NoFacadeCall
    /\ NoColorCall
    /\ NoSamplerCall
    /\ NoGridCall
    /\ NoRedCall
    /\ NoUiCall
    /\ runs = <<StartedRun(1, 0, 0)>>
    /\ texture = 0
    /\ hookMounted = TRUE
    /\ hiddenDivRef = 1
    /\ containers = {1}
    /\ created = {}
    /\ disposed = {}
    /\ published = << >>

\* the textures the cleanup of the latest run disposes: the one its closure holds
CleanupDisposes == IF runs[Len(runs)].captured # 0 THEN {runs[Len(runs)].captured} ELSE {}

\* the runs after the cleanup of the latest one has cleared its mounted flag
AfterCleanup == [runs EXCEPT ![Len(runs)].mounted = FALSE]

\* [heatmap, params, building] change: the cleanup of the latest run, then the
\* effect again
InputsChange ==
    /\ hookMounted
    /\ Len(runs) < MaxRenders
    /\ LET k == Len(runs) + 1
       IN  /\ runs' = Append(AfterCleanup, StartedRun(k, 0, texture))
           /\ containers' = (containers \ {hiddenDivRef}) \cup {k}
           /\ hiddenDivRef' = k
    /\ disposed' = disposed \cup CleanupDisposes
    /\ UNCHANGED <<notTexVars, texture, hookMounted, created, published>>

\* the component unmounts: the cleanup of the latest run
Unmount ==
    /\ hookMounted
    /\ hookMounted' = FALSE
    /\ runs' = AfterCleanup
    /\ containers' = containers \ {hiddenDivRef}
    /\ hiddenDivRef' = 0
    /\ disposed' = disposed \cup CleanupDisposes
    /\ UNCHANGED <<notTexVars, texture, created, published>>

\* await import(...) resolves: the colorscale and the trace are built and
\* newPlot is called
ImportResolved ==
    /\ \E k \in 1..Len(runs) :
        /\ runs[k].pos = "import"
        /\ runs' = [runs EXCEPT ![k].pos = "newPlot"]
    /\ UNCHANGED <<notTexVars, texture, hookMounted, hiddenDivRef, containers, created,
                   disposed, published>>

\* await plotly.newPlot(...) resolves: toImage is called
NewPlotResolved ==
    /\ \E k \in 1..Len(runs) :
        /\ runs[k].pos = "newPlot"
        /\ runs' = [runs EXCEPT ![k].pos = "toImage"]
    /\ UNCHANGED <<notTexVars, texture, hookMounted, hiddenDivRef, containers, created,
                   disposed, published>>

\* await plotly.toImage(...) resolves: the mounted test, then loader.load
ToImageResolved ==
    /\ \E k \in 1..Len(runs) :
        /\ runs[k].pos = "toImage"
        /\ runs' = [runs EXCEPT ![k].pos = IF runs[k].mounted THEN "loading" ELSE "aborted"]
    /\ UNCHANGED <<notTexVars, texture, hookMounted, hiddenDivRef, containers, created,
                   disposed, published>>

\* the onLoad callback of loader.load: the texture exists and is handed to
\* setTexture, which does nothing once the component is unmounted
TextureLoaded ==
    /\ \E k \in 1..Len(runs) :
        /\ runs[k].pos = "loading"
        /\ runs' = [runs EXCEPT ![k].pos = "done"]
        /\ created' = created \cup {k}
        /\ texture' = IF hookMounted THEN k ELSE texture
        /\ published' = IF hookMounted
                        THEN Append(published, [run |-> k, latest |-> Len(runs)])
                        ELSE published
    /\ UNCHANGED <<notTexVars, hookMounted, hiddenDivRef, containers, disposed>>

\* the import, newPlot or toImage rejects and the catch logs it, or the
\* loader fails and never calls onLoad
RenderFailed ==
    /\ \E k \in 1..Len(runs) :
        /\ runs[k].pos \in {"import", "newPlot", "toImage", "loading"}
        /\ runs' = [runs EXCEPT ![k].pos = "failed"]
    /\ UNCHANGED <<notTexVars, texture, hookMounted, hiddenDivRef, containers, created,
                   disposed, published>>

NextTexture ==
    \/ InputsChange
    \/ Unmount
    \/ ImportResolved
    \/ NewPlotResolved
    \/ ToImageResolved
    \/ TextureLoaded
    \/ RenderFailed

SpecTexture == InitTexture /\ [][NextTexture]_vars

(***************************************************************************)
(* Properties                                                              *)
(***************************************************************************)

\* a call has returned
Returned1 == calls >= 1
Cells == {<<j, i>> : j \in 1..Len(xs), i \in 1..Len(xs)}

\* the open rectangles <<x0, z0, x1, z1>> whose union is the interior of a perimeter
InteriorRects(poly) ==
    IF poly \in {RectPoly, DupPoly} THEN {<<-300, -300, 300, 300>>}
    ELSE IF poly = NotchPoly THEN {<<-300, -300, 300, 100>>, <<100, -300, 300, 300>>}
    ELSE IF poly = LPoly THEN {<<-300, -300, 300, 0>>, <<0, -300, 300, 300>>}
    ELSE {}

StrictlyInside(px, pz, poly) ==
    \E r \in InteriorRects(poly) : r[1] < px /\ px < r[3] /\ r[2] < pz /\ pz < r[4]

\* C1: with a perimeter of at least 3 points, every cell whose centre is
\* strictly inside the perimeter is null in the returned z, whatever the Lw
\* values and overlay parameters
C1_InteriorMasked ==
    (Returned1 /\ Len(cfg.poly) >= 3) =>
        \A c \in Cells :
            StrictlyInside(xs[c[2]], xs[c[1]], cfg.poly) => result.z[c[1]][c[2]] = Null

\* C1 witness: a returned grid with an interior cell that band energy reached
\* and that is nevertheless null
C1_Witness ==
    /\ Returned1 /\ pc = "idle" /\ Len(cfg.poly) >= 3
    /\ \E c \in Cells :
          /\ StrictlyInside(xs[c[2]], xs[c[1]], cfg.poly)
          /\ energyGrid[c[1]][c[2]] # ZeroE
          /\ IsFinite(overlay[c[1]][c[2]])
          /\ result.z[c[1]][c[2]] = Null

\* the largest finite Lw in the map handed to compute()
FiniteSupplied == {cfg.Lw[k] : k \in DOMAIN cfg.Lw} \ {NaN}
MaxSupplied == CHOOSE v \in FiniteSupplied : \A u \in FiniteSupplied : u <= v

\* C2: when a finite Lw is supplied, every finite cell of the returned z is
\* at most the largest supplied Lw
C2_OutputCap ==
    (Returned1 /\ FiniteSupplied # {}) =>
        \A c \in Cells :
            result.z[c[1]][c[2]] # Null => result.z[c[1]][c[2]] <= MaxSupplied

\* C2 witness: a cell whose level before the cap was above the largest
\* supplied Lw and that is returned at exactly that level
C2_Witness ==
    /\ Returned1 /\ pc = "idle" /\ FiniteSupplied # {}
    /\ \E c \in Cells :
          /\ IsFinite(overlay[c[1]][c[2]])
          /\ overlay[c[1]][c[2]] > MaxSupplied
          /\ IsFinite(output[c[1]][c[2]])
          /\ output[c[1]][c[2]] > MaxSupplied
          /\ result.z[c[1]][c[2]] = MaxSupplied

EmptyGridReturned ==
    /\ result.x = << >>
    /\ result.y = << >>
    /\ result.z = << << >> >>
    /\ result.min = NaN
    /\ result.max = NaN

\* C4: with a perimeter of fewer than 3 points compute() returns the empty
\* grid {x: [], y: [], z: [[]], min: NaN, max: NaN}
C4_EmptyGridOnShortPerimeter ==
    (Returned1 /\ Len(cfg.poly) < 3) => EmptyGridReturned

\* C5: when the returned z has no finite cell, the returned min and max are NaN
C5_MinMaxNaNWithoutData ==
    (Returned1 /\ \A c \in Cells : result.z[c[1]][c[2]] = Null) =>
        (result.min = NaN /\ result.max = NaN)

\* C6: every cell of the returned z is a finite number or null, never NaN,
\* +Infinity or -Infinity
C6_FiniteOrNull ==
    Returned1 => \A c \in Cells : result.z[c[1]][c[2]] \notin {NaN, PosInf, NegInf}

\* C6 witness: a cell that is NaN in the final field and null in the returned z,
\* next to a cell that holds a finite level
C6_Witness ==
    /\ Returned1 /\ pc = "idle"
    /\ \E c \in Cells : finalSmooth[c[1]][c[2]] = NaN /\ result.z[c[1]][c[2]] = Null
    /\ \E c \in Cells : IsFinite(result.z[c[1]][c[2]])

\* the hot-spot pass of the current call has run
HotDone == pc = "blend" \/ (pc = "idle" /\ calls >= 1)
SegIdx == 1..Len(cfg.main)

\* C7: in the hot-spot pass a segment whose final outward probe lies inside the
\* perimeter contributes nothing to the cell
C7_ProbeInsideNoContribution ==
    HotDone =>
        \A c \in Cells : \A k \in SegIdx :
            hot[c[1]][c[2]][k].probeInside => hot[c[1]][c[2]][k].contribution = Null

\* C7 witness: L-shaped perimeter, the cell (0, -4 m) below the building and the
\* notch facade segment-4 with a positive Lw: the facade is looked at, its final
\* probe at the reentrant corner is inside the perimeter and it contributes
\* nothing, while another facade does contribute to the cell
C7_Witness ==
    /\ HotDone /\ cfg.poly = LPoly
    /\ \E c \in Cells :
          /\ xs[c[2]] = 0 /\ xs[c[1]] = -400
          /\ hot[c[1]][c[2]][5].looked
          /\ hot[c[1]][c[2]][5].probeInside
          /\ hot[c[1]][c[2]][5].contribution = Null
          /\ \E k \in SegIdx : hot[c[1]][c[2]][k].contribution # Null

\* the band pass of the current call has run
BandsDone == pc \in {"combine", "hot", "blend"} \/ (pc = "idle" /\ calls >= 1)

\* C8: a segment whose Lw is missing, non-finite or not positive adds no band
\* energy and no hot-spot value at any cell
C8_NoOverlayWithoutPositiveLw ==
    HotDone =>
        \A k \in SegIdx :
            LET lw == LwEntry(cfg, cfg.main[k].name)
            IN (~IsFinite(lw) \/ lw <= 0) =>
                   /\ bandsOf[cfg.main[k].name] = {}
                   /\ \A c \in Cells : hot[c[1]][c[2]][k].contribution = Null

\* C9: for a segment with a finite, positive Lw the accumulated bands are blue
\* and green, yellow iff Lw exceeds the yellow threshold, red iff Lw exceeds the
\* red threshold
C9_BandsByThreshold ==
    BandsDone =>
        \A k \in SegIdx :
            LET lw == LwEntry(cfg, cfg.main[k].name)
            IN (IsFinite(lw) /\ lw > 0) =>
                   bandsOf[cfg.main[k].name] =
                       {"blue", "green"}
                       \cup (IF lw > YellowThreshold THEN {"yellow"} ELSE {})
                       \cup (IF lw > RedThreshold THEN {"red"} ELSE {})

\* the base field of the current call has been computed
BaseDone == pc \in {"smooth", "bands", "combine", "hot", "blend"} \/ (pc = "idle" /\ calls >= 1)

\* a cell centre outside the closed building footprint
StrictlyOutside(px, pz, poly) ==
    \A r \in InteriorRects(poly) : ~(r[1] <= px /\ px <= r[3] /\ r[2] <= pz /\ pz <= r[4])

\* distance of a cell centre to the nearest segment, and the segments at that distance
MinDist(px, pz) == SetMin({ClosestOn(cfg.main[k], px, pz).d : k \in SegIdx})
NearestSegs(px, pz) == {k \in SegIdx : ClosestOn(cfg.main[k], px, pz).d = MinDist(px, pz)}

\* a segment without a finite Lw and without an Lp_in entry
Unset(k) ==
    /\ ~IsFinite(LwEntry(cfg, cfg.main[k].name))
    /\ cfg.main[k].name \notin DOMAIN cfg.params.Lp_in_map

C11_EmptyConfigValidGrid ==
    (Returned1 /\ cfg = EmptyCfg) =>
        /\ Len(result.x) >= 3
        /\ Len(result.y) >= 3
        /\ Len(result.z) = Len(result.y)
        /\ \A j \in 1..Len(result.z) : Len(result.z[j]) = Len(result.x)

\* C12: for areaSize > 0 the returned axes are strictly ascending and every
\* sample lies in [-areaSize/2, +areaSize/2], also when the minimum of 3
\* samples is enforced
C12_AxesAscendingInArea ==
    (Returned1 /\ IsFinite(cfg.areaSize) /\ cfg.areaSize > 0) =>
        \A axis \in {result.x, result.y} :
            /\ \A i \in 1..(Len(axis) - 1) : axis[i] < axis[i + 1]
            /\ \A i \in 1..Len(axis) :
                   -(cfg.areaSize \div 2) <= axis[i] /\ axis[i] <= cfg.areaSize \div 2


\* a segment whose two end points coincide
Degenerate(k) == cfg.main[k].p1 = cfg.main[k].p2

Sampled == sources # NoSources

\* C13: a segment of zero length is skipped by the source sampler (no source
\* carries its index), by the band generator (no band energy under its name),
\* by the nearest-segment choice of the base field (no exterior cell selects it)
\* and by the hot-spot pass (it contributes to no cell)
C13_DegenerateSegmentSkipped ==
    Sampled =>
        \A k \in SegIdx :
            Degenerate(k) =>
                /\ \A i \in 1..Len(sources) : sources[i].seg # k
                /\ bandsOf[cfg.main[k].name] = {}
                /\ \A c \in Cells :
                      StrictlyOutside(xs[c[2]], xs[c[1]], cfg.poly) =>
                          NearestFrom(cfg.main, xs[c[2]], xs[c[1]], 1, 0, 0).k # k
                /\ \A c \in Cells : hot[c[1]][c[2]][k].contribution = Null


LoopSampled == loopSources # NoSources

\* the sources of segment k, in the order they were pushed
OfSegment(srcs, k) == SelectSeq(srcs, LAMBDA s : s.seg = k)

\* the point of the facade a source was put on (before the outward offset),
\* times the denominator of the source
OnFacade(s) ==
    <<s.x - s.den * RoundDiv(s.nx * OutwardOffset, W),
      s.z - s.den * RoundDiv(s.nz * OutwardOffset, W)>>

\* the n sources of every segment lie at the fractions (i + 0.5) / n of the
\* segment, and none of them lies on an end point of the segment
AtSubSegmentCentres(srcs, segs) ==
    \A k \in 1..Len(segs) :
        LET S == OfSegment(srcs, k)
            n == Len(S)
            p1 == segs[k].p1
            p2 == segs[k].p2
        IN /\ n >= 1
           /\ \A i \in 1..n :
                 /\ 2 * n * OnFacade(S[i])[1]
                        = S[i].den * (2 * n * p1[1] + (2 * i - 1) * (p2[1] - p1[1]))
                 /\ 2 * n * OnFacade(S[i])[2]
                        = S[i].den * (2 * n * p1[2] + (2 * i - 1) * (p2[2] - p1[2]))
                 /\ OnFacade(S[i]) # <<S[i].den * p1[1], S[i].den * p1[2]>>
                 /\ OnFacade(S[i]) # <<S[i].den * p2[1], S[i].den * p2[2]>>

\* segment k has a source at the point c of the perimeter
EmitsAt(srcs, k, c) ==
    \E i \in 1..Len(srcs) :
        srcs[i].seg = k /\ OnFacade(srcs[i]) = <<srcs[i].den * c[1], srcs[i].den * c[2]>>

\* two segments that share a corner do not both emit a source at it
NoSharedCorner(srcs, segs) ==
    \A k, q \in 1..Len(segs) :
        k # q =>
            \A c \in {segs[k].p1, segs[k].p2} \cap {segs[q].p1, segs[q].p2} :
                ~(EmitsAt(srcs, k, c) /\ EmitsAt(srcs, q, c))

\* C15: for every segment and spacing the sampler puts its n samples at the
\* fractions (i + 0.5) / n of the segment, none on an end point of the
\* segment, and two segments never both emit a source at a shared corner
C15_SamplesAtSubSegmentCentres ==
    /\ Sampled => (AtSubSegmentCentres(sources, SampledSegments(cfg.poly, cfg.main))
                   /\ NoSharedCorner(sources, SampledSegments(cfg.poly, cfg.main)))
    /\ LoopSampled => (AtSubSegmentCentres(loopSources, MainOf(cfg.poly))
                       /\ NoSharedCorner(loopSources, MainOf(cfg.poly)))


\* the normal of a source is a unit vector perpendicular to the segment
UnitPerpendicular(s, seg) ==
    /\ s.nx * s.nx + s.nz * s.nz = W * W
    /\ s.nx * (seg.p2[1] - seg.p1[1]) + s.nz * (seg.p2[2] - seg.p1[2]) = 0

\* the point 10 cm from the middle of the segment along the normal of the
\* source is outside the building
PointsOutward(s, seg, poly) ==
    StrictlyOutside((seg.p1[1] + seg.p2[1]) \div 2 + RoundDiv(s.nx * 10, W),
                    (seg.p1[2] + seg.p2[2]) \div 2 + RoundDiv(s.nz * 10, W), poly)

OutwardUnitNormals(srcs, segs, poly) ==
    \A i \in 1..Len(srcs) :
        /\ UnitPerpendicular(srcs[i], segs[srcs[i].seg])
        /\ PointsOutward(srcs[i], segs[srcs[i].seg], poly)

\* the perimeters that enclose an area: convex (rectangle) and concave (L)
ClosedPerimeter == InteriorRects(cfg.poly) # {}

\* C16: every source of the sampler carries a unit vector perpendicular to its
\* segment that points away from the interior of the building, on convex and
\* on concave perimeters
C16_OutwardUnitNormal ==
    (Sampled /\ ClosedPerimeter) =>
        OutwardUnitNormals(sources, SampledSegments(cfg.poly, cfg.main), cfg.poly)


\* an element that may enter the sum: positive area and finite R
ValidElement(el) == el.area > 0 /\ IsFinite(el.R)
ValidElements == SelectSeq(facadeElements, ValidElement)

\* C14: R'e is computed from the valid elements only (the result is that of
\* the list without the elements of non-positive area or non-finite R) and is
\* NaN when the list holds no valid element, the empty list included
C14_RePrimeFromValidElements ==
    /\ rePrimeISO # Null =>
          rePrimeISO = IF Len(ValidElements) = 0 THEN NaN
                       ELSE computeFacadeRePrime(ValidElements)
    /\ rePrimeGF # Null =>
          rePrimeGF = IF Len(ValidElements) = 0 THEN NaN
                      ELSE GradientFactory_computeFacadeRePrime(ValidElements)


\* on which side of the line of a segment a point lies (sign of the cross product)
SideOf(seg, px, pz) ==
    (seg.p2[1] - seg.p1[1]) * (pz - seg.p1[2]) - (seg.p2[2] - seg.p1[2]) * (px - seg.p1[1])

\* for a convex perimeter: the point lies on the building side of the facade line
BehindFacade(seg, px, pz) ==
    \/ SideOf(seg, px, pz) > 0 /\ SideOf(seg, Centroid(cfg)[1], Centroid(cfg)[2]) > 0
    \/ SideOf(seg, px, pz) < 0 /\ SideOf(seg, Centroid(cfg)[1], Centroid(cfg)[2]) < 0

\* the outward unit normal of a facade of a convex perimeter, in thousandths:
\* the perpendicular that points away from the centre
OutwardNormal(seg) ==
    IF (Centroid(cfg)[1] - seg.p1[1]) * SegFrame(seg).nx
       + (Centroid(cfg)[2] - seg.p1[2]) * SegFrame(seg).nz > 0
    THEN [nx |-> -SegFrame(seg).nx, nz |-> -SegFrame(seg).nz]
    ELSE [nx |-> SegFrame(seg).nx, nz |-> SegFrame(seg).nz]

\* the energy sample s of a band call adds at a cell
SampleEnergy(seg, band, Lw_room, RePrime, px, pz, s, ps) ==
    IF band = "red" THEN RedSampleEnergy(seg, Lw_room, RePrime, px, pz, s, ps)
    ELSE LinearSampleEnergy(seg, band, Lw_room, RePrime, px, pz, s, ps)

\* dot(sample -> cell, outward normal) > dotThreshold * |sample -> cell|
InFrontOfSample(seg, sp, px, pz) ==
    (px - sp[1]) * OutwardNormal(seg).nx + (pz - sp[2]) * OutwardNormal(seg).nz
        > DotThreshold * Hypot(px - sp[1], pz - sp[2])

\* C17: in the band generator a cell receives energy from a sample only if the
\* dot product of the sample-to-cell direction with the outward normal of the
\* facade exceeds dotThreshold, and a cell on the building side of the facade
\* line receives no energy from that facade (stated on the convex perimeter)
C17_NoEnergyBehindFacade ==
    (BandsDone /\ cfg.poly = RectPoly) =>
        \A k \in SegIdx : \A b \in 1..Len(BandsFor(cfg, k)) : \A c \in Cells :
            LET seg == cfg.main[k]
                band == BandsFor(cfg, k)[b]
                px == xs[c[2]]
                pz == xs[c[1]]
            IN /\ \A s \in 0..(BandSamples(seg, band, cfg.params) - 1) :
                     SampleEnergy(seg, band, LwEntry(cfg, seg.name), RePrimeOf(cfg, k),
                                  px, pz, s, cfg.params) # ZeroE
                     => InFrontOfSample(seg, SamplePos(seg, s, BandSamples(seg, band, cfg.params)),
                                        px, pz)
               /\ BehindFacade(seg, px, pz) => BandCell(cfg, k, b, px, pz) = ZeroE


\* the index of the grid coordinate v
IndexOf(v) == CHOOSE i \in 1..Len(xs) : xs[i] = v

\* the returned level at the perpendicular distance d (signed: either side)
\* from the middle of the single facade, which lies at the origin
LevelAt(d) ==
    IF cfg.main[1].p1[2] = cfg.main[1].p2[2]
    THEN result.z[IndexOf(d)][IndexOf(0)]
    ELSE result.z[IndexOf(0)][IndexOf(d)]

StrictlyDecreasing(a, b, c, d) ==
    /\ IsFinite(a) /\ IsFinite(b) /\ IsFinite(c) /\ IsFinite(d)
    /\ a > b /\ b > c /\ c > d

\* C18: for a single straight facade of 10 m with Lw = 80 dB and no smoothing,
\* the level returned for the receivers in front of its middle at the
\* perpendicular distances 1 m, 2 m, 4 m and 8 m is strictly decreasing
C18_StrictlyDecreasingWithDistance ==
    (Returned1 /\ cfg \in FalloffCfgs) =>
        \A side \in {-1, 1} :
            StrictlyDecreasing(LevelAt(100 * side), LevelAt(200 * side),
                               LevelAt(400 * side), LevelAt(800 * side))

\* C18 witness: compute() has returned for the facade from (-5, 0) to (5, 0);
\* the receiver at 1 m is louder than 40 dB and the one at 8 m is below 25 dB
C18_Witness ==
    /\ Returned1 /\ cfg \in FalloffCfgs
    /\ cfg.main[1].p1 = <<-500, 0>>
    /\ IsFinite(LevelAt(100)) /\ LevelAt(100) > 40 * DB
    /\ IsFinite(LevelAt(800)) /\ LevelAt(800) < 25 * DB


ScaleBuilt == builder # "none"

\* C19: for every zMin, zMax and thresholds the colour scale holds at least 2
\* stops, its positions increase from stop to stop, the first is 0 and the
\* last is 1
C19_StopsIncreasingFromZeroToOne ==
    ScaleBuilt =>
        /\ Len(colorscale) >= 2
        /\ \A k \in 1..(Len(colorscale) - 1) : colorscale[k].p < colorscale[k + 1].p
        /\ colorscale[1].p = 0
        /\ colorscale[Len(colorscale)].p = PosUnit

\* C19 witness: thresholds given and a proper range, the builder of part_001
\* sampled its 128 stops
C19_Witness ==
    /\ builder = "part_001" /\ thresholds.present /\ zmin = 0 /\ zmax = 90 * DB
    /\ Len(colorscale) = NStops
    /\ colorscale[2].p = 100

\* the fallback ramp of the builder that was called
FallbackOf(name) == IF name = "ColorMap" THEN ColorMap_getColorscale ELSE getColorscale

\* all stops of a scale carry one colour
SingleColour(scale) == \A a, b \in 1..Len(scale) : scale[a].color = scale[b].color

\* the data range is empty or reversed
DegenerateRange == IsFinite(zmin) /\ IsFinite(zmax) /\ zmax <= zmin

\* C20: with zMax <= zMin, or without thresholds, the builder returns the
\* fixed default ramp, which is not a single-colour scale
C20_FallbackOnDegenerateInput ==
    (ScaleBuilt /\ (DegenerateRange \/ ~thresholds.present)) =>
        /\ colorscale = FallbackOf(builder)
        /\ ~SingleColour(colorscale)

\* C20 witness: thresholds are given but zMax = zMin, and the builder of
\* ColorMap.ts returned its seven-stop fallback
C20_Witness ==
    /\ builder = "ColorMap" /\ thresholds.present /\ zmin = 40 * DB /\ zmax = 40 * DB
    /\ Len(colorscale) = 7
    /\ colorscale[7].color = Red

\* the heatmap had no finite cell: the range handed to the builder is NaN, NaN
NoFiniteRange == zmin = NaN /\ zmax = NaN

\* C30: with a heatmap without finite cell (min and max NaN) the colour scale
\* built for the renderer is the default fallback ramp, and not a scale of a
\* single colour
C30_FallbackWithoutFiniteCell ==
    (ScaleBuilt /\ NoFiniteRange) =>
        /\ colorscale = FallbackOf(builder)
        /\ ~SingleColour(colorscale)

\* tClamped of cell c on segment k, as projectOnSegment returns it (hundredths)
TClampedAt(k, c) ==
    LET f == SegFrame(cfg.main[k])
    IN TClamped(f.vx * f.vx + f.vz * f.vz,
                (xs[c[2]] - cfg.main[k].p1[1]) * f.vx + (xs[c[1]] - cfg.main[k].p1[2]) * f.vz)

\* wEdge of cell c on segment k, as the hot-spot pass computes it (thousandths)
WEdgeAt(k, c) ==
    edgeTaperWeight(TClampedAt(k, c), SegFrame(cfg.main[k]).segLen, LateralTaper)

\* the taper over the fraction t (hundredths) of a segment: 0 at both ends,
\* linear over the taper fraction, 1 between
TaperProfile(t) ==
    IF t * 10 < LateralTaper THEN (t * 10 * W) \div LateralTaper
    ELSE IF t * 10 > W - LateralTaper THEN ((W - t * 10) * W) \div LateralTaper
    ELSE W

\* C24: in the hot-spot pass the edge-taper weight of a segment is 0 at both
\* endpoints, rises linearly over the taper fraction, is 1 in the middle, and
\* is the same at fraction t and at fraction 1 - t
C24_EdgeTaperSymmetric ==
    HotDone =>
        \A k \in SegIdx : \A c \in Cells :
            hot[c[1]][c[2]][k].looked =>
                /\ WEdgeAt(k, c) = TaperProfile(TClampedAt(k, c))
                /\ \A d \in Cells :
                       (hot[d[1]][d[2]][k].looked
                          /\ TClampedAt(k, d) = 100 - TClampedAt(k, c))
                       => WEdgeAt(k, d) = WEdgeAt(k, c)

\* C25: generateSources terminates and returns a finite list of sources for
\* every input, a sampleSpacing omitted, zero or negative included
C25_SamplingReturns == <>(samplerPc = "returned")

\* C26: generateSources does not modify its arguments: after the call the
\* lwMap of the caller holds the keys and values it was built with, which are
\* those of the map handed to compute()
C26_LwMapNotModified == Sampled => lwMap = cfg.Lw

\* the call was made without options, or with options without dbPerMeter
DbPerMeterOmitted == ~gridOptions.given \/ gridOptions.dbPerMeter = Null

\* cell (j, i) lies within maxDist of a source with finite Lw
NearFiniteSource(j, i) ==
    \E k \in 1..Len(gridSources) :
        /\ IsFinite(gridSources[k].Lw)
        /\ Hypot(GridXs[i] - gridSources[k].x, GridXs[j] - gridSources[k].z)
               <= MaxDistOf(gridOptions)

\* C29: computeGridLpFromSources without options, or with options that omit
\* dbPerMeter, does not throw, applies 0.5 dB per metre, and gives a finite
\* level at every cell within maxDist of a source with finite Lw
C29_DefaultDbPerMeter ==
    (gridOut.state # "none" /\ DbPerMeterOmitted) =>
        /\ gridOut.state = "returned"
        /\ gridOut.out = GridLp(gridSources, GridXs, MaxDistOf(gridOptions),
                                DefaultDbPerMeter)
        /\ \A j, i \in 1..Len(GridXs) :
               NearFiniteSource(j, i) => IsFinite(gridOut.out[j][i])

\* one of the four corners of the cell (j, i) of the grid is inside the perimeter
CornerInside(axis, j, i, poly) ==
    \E dx \in {-CellHalf(axis), CellHalf(axis)}, dz \in {-CellHalf(axis), CellHalf(axis)} :
        StrictlyInside(axis[i] + dx, axis[j] + dz, poly)

\* C23: generateRedHeatmapFromFacade returns NaN for every cell of which a
\* corner is inside the perimeter, for every Lw map and option value, a
\* positive yellow blur radius included
C23_RedHeatmapMasked ==
    redPc = "returned" =>
        \A j, i \in 1..Len(redOut) :
            CornerInside(GridAxis(cfg), j, i, cfg.poly) => redOut[j][i] = NaN

\* C27: after any sequence of user actions, once the pending effects have run,
\* building.LwBySegment has exactly one entry per point of finalLoop.
C27_OneEntryPerSegment ==
    Quiescent => Len(building.LwBySegment) = FinalLoopLength(committed.shapeType)

\* C28: after changeBuildingType(type), for any type string, the sync effect of
\* useSyncSegments performs no further re-initialisation of LwBySegment.
C28_ChangeTypeStable ==
    installed.state = "set" => reinits = 0

\* every render of usePlotlyTexture has ended
AllRendersEnded == \A k \in 1..Len(runs) : runs[k].pos \in EndedAt

\* C21: a render superseded by a change of the inputs never publishes its
\* texture, and once every render has ended the texture the hook returns is
\* the one of the latest inputs.
C21_LastCallWins ==
    /\ \A i \in 1..Len(published) : published[i].run = published[i].latest
    /\ (hookMounted /\ AllRendersEnded /\ runs[Len(runs)].pos = "done")
           => texture = Len(runs)

\* C22: after the unmount, once every render has ended, no container is left
\* in the document and every texture the hook created has been disposed.
C22_NothingOutlivesUnmount ==
    (~hookMounted /\ AllRendersEnded) => (containers = {} /\ created \subseteq disposed)

====
